---- MODULE Spec2Model ----
(***************************************************************************)
(* A model of cmec-driver (src/src/cmec-driver.cpp): the CMEC module       *)
(* library (CMECLibrary), the module descriptors (CMECModuleSettings,      *)
(* CMECModuleTOC) and the commands register, unregister, list and run.     *)
(*                                                                         *)
(* Strings are sequences of one-character strings, so that comparison,     *)
(* splitting and path normalisation are computed rather than assumed.      *)
(***************************************************************************)
EXTENDS Integers, Sequences, FiniteSets, TLC

(***************************************************************************)
(* Characters and strings                                                  *)
(***************************************************************************)

\* The character code of c (ASCII), for the characters the model uses.
Code(c) ==
    CASE c = " " -> 32
      [] c = "-" -> 45
      [] c = "." -> 46
      [] c = "/" -> 47
      [] c = "0" -> 48
      [] c = "1" -> 49
      [] c = "2" -> 50
      [] c = "3" -> 51
      [] c = "7" -> 55
      [] c = "8" -> 56
      [] c = "9" -> 57
      [] c = "_" -> 95
      [] c = "a" -> 97
      [] c = "b" -> 98
      [] c = "c" -> 99
      [] c = "e" -> 101
      [] c = "n" -> 110
      [] c = "r" -> 114
      [] c = "s" -> 115
      [] c = "t" -> 116
      [] c = "u" -> 117
      [] c = "x" -> 120
      [] c = "z" -> 122

\* std::string operator< : lexicographic comparison of the character codes;
\* a proper prefix is smaller.
RECURSIVE StrLess(_, _)
StrLess(a, b) ==
    IF b = <<>> THEN FALSE
    ELSE IF a = <<>> THEN TRUE
    ELSE IF Code(Head(a)) < Code(Head(b)) THEN TRUE
    ELSE IF Code(Head(a)) > Code(Head(b)) THEN FALSE
    ELSE StrLess(Tail(a), Tail(b))

\* The smallest string of a non-empty set: where std::map iteration starts.
MinStr(S) == CHOOSE a \in S : \A b \in S \ {a} : StrLess(a, b)

\* The keys of a std::map in iteration order (ascending by operator<).
RECURSIVE SortedKeys(_)
SortedKeys(S) ==
    IF S = {} THEN <<>>
    ELSE LET a == MinStr(S) IN <<a>> \o SortedKeys(S \ {a})

(***************************************************************************)
(* filesystem::path: a flag for an absolute path and the list of its       *)
(* non-empty components.                                                   *)
(***************************************************************************)

\* Split a string on '/', dropping empty components.
RECURSIVE Tokenize(_, _)
Tokenize(str, cur) ==
    IF str = <<>> THEN (IF cur = <<>> THEN <<>> ELSE <<cur>>)
    ELSE IF Head(str) = "/"
         THEN (IF cur = <<>> THEN <<>> ELSE <<cur>>) \o Tokenize(Tail(str), <<>>)
         ELSE Tokenize(Tail(str), Append(cur, Head(str)))

\* filesystem::path(const std::string &)
PathOf(str) ==
    [absolute |-> (str # <<>> /\ Head(str) = "/"), parts |-> Tokenize(str, <<>>)]

RECURSIVE JoinParts(_)
JoinParts(parts) ==
    IF parts = <<>> THEN <<>>
    ELSE IF Len(parts) = 1 THEN Head(parts)
    ELSE Head(parts) \o <<"/">> \o JoinParts(Tail(parts))

\* filesystem::path::str()
StrOf(p) == (IF p.absolute THEN <<"/">> ELSE <<>>) \o JoinParts(p.parts)

\* filesystem::path::operator/
PathJoin(p, q) == [absolute |-> p.absolute, parts |-> p.parts \o q.parts]

\* The default-constructed path.
EmptyPath == [absolute |-> FALSE, parts |-> <<>>]

(***************************************************************************)
(* JSON values, as far as the driver discriminates them.                   *)
(***************************************************************************)

JMissing == [t |-> "missing"]
JNull == [t |-> "null"]
JNumber == [t |-> "number"]
JStr(s) == [t |-> "string", s |-> s]
JObj(f) == [t |-> "object", f |-> f]
EmptyMap == [n \in {} |-> JNull]
JEmptyObj == JObj(EmptyMap)

\* A parsed library document: the three keys Read looks at.
JDoc(ver, drv, mods) == [t |-> "doc", version |-> ver, driver |-> drv, modules |-> mods]

\* The library file: absent, unparseable, or a JSON document.
NoFile == [t |-> "absent"]
GarbageFile == [t |-> "garbage"]

\* g_szVersion = "20200731"
g_szVersion == <<"2", "0", "2", "0", "0", "7", "3", "1">>

\* A skeleton that lacks the reserved "cmec-driver" object.
Skeleton_NoDriverKey == JDoc(JStr(g_szVersion), JMissing, JEmptyObj)

\* The document Read writes when the library file does not exist.
Skeleton == JDoc(JStr(g_szVersion), JEmptyObj, JEmptyObj)

(***************************************************************************)
(* CMECLibrary                                                             *)
(***************************************************************************)

\* The module map Read builds from the "modules" object f, in key order,
\* up to the first entry that is not a string.
RECURSIVE LoadModules(_, _, _)
LoadModules(keys, f, map) ==
    IF keys = <<>> THEN [ok |-> TRUE, map |-> map]
    ELSE LET k == Head(keys) IN
         IF f[k].t # "string" THEN [ok |-> FALSE, map |-> map]
         ELSE IF k \in DOMAIN map THEN [ok |-> FALSE, map |-> map]
         ELSE LoadModules(Tail(keys), f,
                          [n \in DOMAIN map \cup {k} |->
                              IF n = k THEN PathOf(f[k].s) ELSE map[n]])

\* A version test that compares the versions as numbers: the longer string
\* is the greater.
VersionTooNew_Numeric(strLibVersion) ==
    \/ Len(g_szVersion) < Len(strLibVersion)
    \/ (Len(g_szVersion) = Len(strLibVersion) /\ StrLess(g_szVersion, strLibVersion))

\* The version test of Read: the driver's version sorts before the file's.
VersionTooNew(strLibVersion) == StrLess(g_szVersion, strLibVersion)

\* CMECLibrary::Read on library file f: whether it returned (ok) or threw
\* (err names the exception), the file afterwards, m_mapModulePaths and
\* m_jlib, and whether the file was created.
ReadLib(f, writable) ==
    LET thrown(e, ff, jl, mp) ==
            [ok |-> FALSE, err |-> e, file |-> ff, map |-> mp, jlib |-> jl,
             created |-> (f.t = "absent" /\ ff.t # "absent")]
    IN
    IF f.t = "absent" /\ ~writable THEN thrown("open", f, JNull, EmptyMap)
    ELSE
    LET ff == IF f.t = "absent" THEN Skeleton ELSE f IN
    IF ff.t = "garbage" THEN thrown("parse", ff, JNull, EmptyMap)
    ELSE IF ff.driver.t # "object" THEN thrown("cmec-driver", ff, ff, EmptyMap)
    ELSE IF ff.version.t # "string" THEN thrown("version-key", ff, ff, EmptyMap)
    ELSE IF ff.modules.t # "object" THEN thrown("modules", ff, ff, EmptyMap)
    ELSE IF VersionTooNew(ff.version.s) THEN thrown("version", ff, ff, EmptyMap)
    ELSE LET r == LoadModules(SortedKeys(DOMAIN ff.modules.f), ff.modules.f, EmptyMap) IN
         [ok |-> r.ok, err |-> IF r.ok THEN "none" ELSE "entry", file |-> ff,
          map |-> r.map, jlib |-> ff, created |-> (f.t = "absent")]

\* m_jlib["modules"][strModuleName] = path.str()
JlibSetModule(jlib, strModuleName, path) ==
    [jlib EXCEPT !.modules =
        JObj([n \in DOMAIN jlib.modules.f \cup {strModuleName} |->
                IF n = strModuleName THEN JStr(StrOf(path)) ELSE jlib.modules.f[n]])]

\* An Insert that updates the map and forgets the JSON document.
InsertLib_MapOnly(map, jlib, strModuleName, path) ==
    IF strModuleName \in DOMAIN map
    THEN [ret |-> FALSE, map |-> map, jlib |-> jlib]
    ELSE [ret |-> TRUE,
          map |-> [n \in DOMAIN map \cup {strModuleName} |->
                      IF n = strModuleName THEN path ELSE map[n]],
          jlib |-> jlib]

\* An Insert that reports a name already present and overwrites its path.
InsertLib_Overwrite(map, jlib, strModuleName, path) ==
    [ret |-> strModuleName \notin DOMAIN map,
     map |-> [n \in DOMAIN map \cup {strModuleName} |->
                 IF n = strModuleName THEN path ELSE map[n]],
     jlib |-> JlibSetModule(jlib, strModuleName, path)]

\* CMECLibrary::Insert
InsertLib(map, jlib, strModuleName, path) ==
    IF strModuleName \in DOMAIN map
    THEN [ret |-> FALSE, map |-> map, jlib |-> jlib]
    ELSE [ret |-> TRUE,
          map |-> [n \in DOMAIN map \cup {strModuleName} |->
                      IF n = strModuleName THEN path ELSE map[n]],
          jlib |-> JlibSetModule(jlib, strModuleName, path)]

\* jmodules.erase(itmod)
JlibEraseModule(jlib, strModuleName) ==
    [jlib EXCEPT !.modules =
        JObj([n \in DOMAIN jlib.modules.f \ {strModuleName} |-> jlib.modules.f[n]])]

\* A Remove that erases through the end of the map instead of one entry.
RemoveLib_EraseRest(map, jlib, strModuleName) ==
    IF strModuleName \notin DOMAIN map
    THEN [ret |-> FALSE, thrown |-> FALSE, map |-> map, jlib |-> jlib]
    ELSE [ret |-> TRUE, thrown |-> FALSE,
          map |-> [n \in {k \in DOMAIN map : StrLess(k, strModuleName)} |-> map[n]],
          jlib |-> [jlib EXCEPT !.modules =
                      JObj([n \in {k \in DOMAIN map : StrLess(k, strModuleName)} |->
                               jlib.modules.f[n]])]]

\* CMECLibrary::Remove; thrown is the "Logic error" exception.
RemoveLib(map, jlib, strModuleName) ==
    IF strModuleName \notin DOMAIN map
    THEN [ret |-> FALSE, thrown |-> FALSE, map |-> map, jlib |-> jlib]
    ELSE IF strModuleName \notin DOMAIN jlib.modules.f
    THEN [ret |-> FALSE, thrown |-> TRUE, map |-> map, jlib |-> jlib]
    ELSE [ret |-> TRUE, thrown |-> FALSE,
          map |-> [n \in DOMAIN map \ {strModuleName} |-> map[n]],
          jlib |-> JlibEraseModule(jlib, strModuleName)]

\* CMECLibrary::find: the path found, or "end" for lib.end().
FindLib(map, strModule) ==
    IF strModule \in DOMAIN map THEN [found |-> TRUE, path |-> map[strModule]]
    ELSE [found |-> FALSE, path |-> EmptyPath]

\* CMECLibrary::size
SizeLib(map) == Cardinality(DOMAIN map)

\* A Write that keeps the modules another process has put into the file
\* since this one read it.
WriteLib_Merge(f, jlib, writable) ==
    IF ~writable THEN [ok |-> FALSE, file |-> f]
    ELSE IF f.t # "doc" \/ f.modules.t # "object" THEN [ok |-> TRUE, file |-> jlib]
    ELSE [ok |-> TRUE,
          file |-> [jlib EXCEPT !.modules =
                       JObj([n \in DOMAIN f.modules.f \cup DOMAIN jlib.modules.f |->
                                IF n \in DOMAIN jlib.modules.f THEN jlib.modules.f[n]
                                ELSE f.modules.f[n]])]]

\* A Write that reports success and leaves the file as it was.
WriteLib_Nothing(f, jlib, writable) == [ok |-> TRUE, file |-> f]

\* CMECLibrary::Write: the file afterwards (unchanged when it cannot be opened).
WriteLib(f, jlib, writable) ==
    IF writable THEN [ok |-> TRUE, file |-> jlib] ELSE [ok |-> FALSE, file |-> f]

(***************************************************************************)
(* The module directories on disk.  A node is a directory, a settings      *)
(* document, a contents (TOC) document, or a file that is not JSON.        *)
(***************************************************************************)

\* g_szCMECTOCName = "contents.json"
g_szCMECTOCName == <<"c", "o", "n", "t", "e", "n", "t", "s", ".", "j", "s", "o", "n">>

\* g_szCMECSettingsName = "settings.json"
g_szCMECSettingsName == <<"s", "e", "t", "t", "i", "n", "g", "s", ".", "j", "s", "o", "n">>

DirNode == [t |-> "dir"]
\* The "settings" object of a settings document.
SettingsObj(name, long_name, driver) ==
    [t |-> "object", name |-> name, long_name |-> long_name, driver |-> driver]
SettingsDoc(settings, varlist, obslist) ==
    [t |-> "settings", settings |-> settings, varlist |-> varlist, obslist |-> obslist]
\* The "module" object of a contents document.
ModuleObj(name, long_name) == [t |-> "object", name |-> name, long_name |-> long_name]
JArr(a) == [t |-> "array", a |-> a]
TOCDoc(module, contents) == [t |-> "toc", module |-> module, contents |-> contents]

\* A well-formed settings document declaring name and driver.
GoodSettings(name, driver) ==
    SettingsDoc(SettingsObj(JStr(name), JStr(name), JStr(driver)), JEmptyObj, JEmptyObj)

\* The files and directories of the model, by absolute path.
FS ==
    LET P(str) == PathOf(str) IN
    (P(<<"/", "s">>) :> DirNode)
    @@ (PathJoin(P(<<"/", "s">>), P(g_szCMECSettingsName)) :> GoodSettings(<<"s">>, <<"r">>))
    @@ (P(<<"/", "t">>) :> DirNode)
    @@ (PathJoin(P(<<"/", "t">>), P(g_szCMECTOCName)) :>
          TOCDoc(ModuleObj(JStr(<<"t">>), JStr(<<"t">>)),
                 JArr(<<JStr(<<"b">>), JStr(<<"a">>), JStr(<<"c">>)>>)))
    @@ (P(<<"/", "t", "/", "a">>) :> GoodSettings(<<"a">>, <<"r">>))
    @@ (P(<<"/", "t", "/", "b">>) :> GoodSettings(<<"b">>, <<"r", "2">>))
    @@ (P(<<"/", "t", "/", "c">>) :>
          SettingsDoc(SettingsObj(JStr(<<"c">>), JStr(<<"c">>), JMissing), JEmptyObj, JEmptyObj))
    @@ (P(<<"/", "t", "/", "d">>) :> GoodSettings(<<"a">>, <<"r">>))
    @@ (P(<<"/", "t", "/", "g">>) :> GarbageFile)
    @@ (P(<<"/", "u">>) :> DirNode)
    @@ (PathJoin(P(<<"/", "u">>), P(g_szCMECTOCName)) :>
          TOCDoc(ModuleObj(JStr(<<"u">>), JStr(<<"u">>)), JNumber))
    @@ (P(<<"/", "e">>) :> DirNode)
    @@ (P(<<"/", "b">>) :> DirNode)
    @@ (PathJoin(P(<<"/", "b">>), P(g_szCMECSettingsName)) :> GoodSettings(<<"b">>, <<"r">>))
    @@ (PathJoin(P(<<"/", "b">>), P(g_szCMECTOCName)) :>
          TOCDoc(ModuleObj(JStr(<<"b">>), JStr(<<"b">>)), JArr(<<>>)))
    @@ (P(<<"/", "n">>) :> DirNode)
    @@ (PathJoin(P(<<"/", "n">>), P(g_szCMECTOCName)) :>
          TOCDoc(ModuleObj(JStr(<<"n">>), JStr(<<"n">>)),
                 JArr(<<JStr(<<"a">>), JStr(<<"b">>)>>)))
    @@ (P(<<"/", "n", "/", "a">>) :> GoodSettings(<<"a">>, <<"r">>))
    @@ (P(<<"/", "n", "/", "b">>) :> GoodSettings(<<"a", "/", "b">>, <<"r">>))

\* A relative path is looked up from the working directory of the process,
\* which is the root directory here.
Resolve(p) == [p EXCEPT !.absolute = TRUE]

\* What is found at no path.
NoNode == [t |-> "none"]

\* The node of files at key, if any.
Lookup(files, key) == IF key \in DOMAIN files THEN files[key] ELSE NoNode

\* The file or directory at path p.
Node(p) == Lookup(FS, Resolve(p))

\* filesystem::path::exists
Exists(p) == Node(p).t # "none"

\* CMECModuleSettings::ExistsInModulePath
SettingsExistsInModulePath(pathModule) ==
    Exists(PathJoin(pathModule, PathOf(g_szCMECSettingsName)))

\* CMECModuleTOC::ExistsInModulePath
TOCExistsInModulePath(pathModule) ==
    Exists(PathJoin(pathModule, PathOf(g_szCMECTOCName)))

\* What ReadFromFile and ReadFromModulePath give when they do not return true.
NotRead(res) == [res |-> res, name |-> <<>>, driver |-> <<>>]

\* The body of CMECModuleSettings::ReadFromFile on the node opened: res is
\* "throw" (exception), "false" or "true"; name and driver are what GetName
\* and GetDriverScript return.
ParseSettings(doc) ==
    IF doc.t # "settings" THEN NotRead("throw")
    ELSE IF doc.settings.t # "object" THEN NotRead("false")
    ELSE IF doc.settings.name.t # "string" THEN NotRead("false")
    ELSE IF doc.settings.long_name.t # "string" THEN NotRead("false")
    ELSE IF doc.settings.driver.t # "string" THEN NotRead("false")
    ELSE IF doc.varlist.t # "object" THEN NotRead("false")
    ELSE IF doc.obslist.t # "object" THEN NotRead("false")
    ELSE [res |-> "true", name |-> doc.settings.name.s, driver |-> doc.settings.driver.s]

\* CMECModuleSettings::ReadFromFile
ReadFromFile(pathSettings) == ParseSettings(Node(pathSettings))

\* isalnum(c) || c == '_' || c == '/'
IsNameChar(c) ==
    \/ (Code(c) >= 48 /\ Code(c) <= 57)
    \/ (Code(c) >= 65 /\ Code(c) <= 90)
    \/ (Code(c) >= 97 /\ Code(c) <= 122)
    \/ c = "_"
    \/ c = "/"

\* An insert that replaces an entry that is already there.
InsertConfig_Overwrite(configs, name, pathSettings) ==
    [n \in DOMAIN configs \cup {name} |-> IF n = name THEN pathSettings ELSE configs[n]]

\* m_mapConfigs.insert(pair(name, pathSettings)): std::map::insert keeps an
\* entry that is already there.
InsertConfig(configs, name, pathSettings) ==
    IF name \in DOMAIN configs THEN configs
    ELSE [n \in DOMAIN configs \cup {name} |-> IF n = name THEN pathSettings ELSE configs[n]]

\* The loop of ReadFromModulePath over the contents array: each entry that
\* parses is inserted under its declared name; an entry that is not a
\* string, or whose file cannot be opened or parsed as JSON, throws.
RECURSIVE LoadConfigs(_, _, _)
\* One turn of that loop, for the settings file at pathSettings read as r.
LoadConfig(pathModule, rest, configs, pathSettings, r) ==
    IF r.res = "throw" THEN [res |-> "throw", configs |-> configs]
    ELSE LoadConfigs(pathModule, rest,
                     IF r.res = "true" THEN InsertConfig(configs, r.name, pathSettings)
                     ELSE configs)

\* The path of the settings file a contents entry names.
EntryPath(pathModule, e) ==
    PathJoin(pathModule, PathOf(IF e.t = "string" THEN e.s ELSE <<>>))

LoadConfigs(pathModule, entries, configs) ==
    IF entries = <<>> THEN [res |-> "true", configs |-> configs]
    ELSE IF Head(entries).t # "string" THEN [res |-> "throw", configs |-> configs]
    ELSE LoadConfig(pathModule, Tail(entries), configs,
                    EntryPath(pathModule, Head(entries)),
                    ReadFromFile(EntryPath(pathModule, Head(entries))))

\* What ReadFromModulePath leaves: its result, m_jcmec and m_mapConfigs.
TOCRead(res, jcmec, configs) == [res |-> res, jcmec |-> jcmec, configs |-> configs]

\* ReadFromModulePath once the contents array is reached.
TOCLoaded(doc, r) == TOCRead(r.res, doc, r.configs)

\* The body of CMECModuleTOC::ReadFromModulePath on the node opened.
ParseTOC(pathModule, doc) ==
    IF doc.t # "toc" THEN TOCRead("throw", JNull, EmptyMap)
    ELSE IF doc.module.t # "object" THEN TOCRead("false", doc, EmptyMap)
    ELSE IF doc.module.name.t # "string" THEN TOCRead("false", doc, EmptyMap)
    ELSE IF \E i \in 1..Len(doc.module.name.s) : ~IsNameChar(doc.module.name.s[i])
         THEN TOCRead("false", doc, EmptyMap)
    ELSE IF doc.module.long_name.t # "string" THEN TOCRead("false", doc, EmptyMap)
    ELSE IF doc.contents.t # "array" THEN TOCRead("false", doc, EmptyMap)
    ELSE TOCLoaded(doc, LoadConfigs(pathModule, doc.contents.a, EmptyMap))

\* CMECModuleTOC::ReadFromModulePath
ReadFromModulePath(pathModule) ==
    ParseTOC(pathModule, Node(PathJoin(pathModule, PathOf(g_szCMECTOCName))))

(***************************************************************************)
(* State                                                                   *)
(***************************************************************************)

VARIABLES
    file,              \* the library file $HOME/.cmeclibrary
    homeWritable,      \* whether the library file can be opened for writing
    m_mapModulePaths,  \* CMECLibrary::m_mapModulePaths of the library object
    m_jlib,            \* CMECLibrary::m_jlib of the library object
    libState,          \* "fresh", "loaded" (Read returned) or "failed" (it threw)
    last,              \* the last call on the library object and the state before it
    cmd,               \* the command being run, or the last one run, with its arguments
    pc,                \* where the command is; "idle" between commands
    exit,              \* the exit status of the last command
    errors,            \* the errors the command has reported
    strName,           \* cmec_register: the module name read from the descriptor
    atLoad,            \* m_mapModulePaths as the command's lib.Read() left it
    m,                 \* cmec_run: index into vecModules
    vecModulePaths,    \* cmec_run: module path of each driver
    vecDriverScripts,  \* cmec_run: driver script of each driver
    vecWorkingDirs,    \* cmec_run: working directory label of each driver
    vecEnvScripts,     \* cmec_run: path of each environment script
    d,                 \* cmec_run: index into vecDriverScripts
    derefEnd,          \* cmec_run: lib.end() has been dereferenced
    outDirs,           \* the directories that exist under the working directory
    scripts,           \* the cmec_run.bash files under the working directory
    executed,          \* the scripts invoked by system(), in order
    childStatus,       \* what the last call of system() returned
    lastKey,           \* cmec_run: the character read last at the overwrite prompt
    other,             \* a second cmec-driver process, running register at the same time
    termios            \* the mode of the terminal on stdin: "canonical" or "raw"

libVars == <<m_mapModulePaths, m_jlib, libState>>
cmdVars == <<cmd, pc, exit, errors, strName, atLoad>>
runVars == <<m, vecModulePaths, vecDriverScripts, vecWorkingDirs, vecEnvScripts, d,
             derefEnd, outDirs, scripts, executed, childStatus, lastKey>>
vars == <<file, homeWritable, m_mapModulePaths, m_jlib, libState, last,
          cmd, pc, exit, errors, strName, atLoad,
          m, vecModulePaths, vecDriverScripts, vecWorkingDirs, vecEnvScripts, d,
          derefEnd, outDirs, scripts, executed, childStatus, lastKey, other, termios>>

(***************************************************************************)
(* The inputs of the model                                                 *)
(***************************************************************************)

\* Version strings a library file may carry: the driver's own, a later
\* date, a shorter string that sorts after it, and a proper prefix.
FileVersions ==
    { g_szVersion,
      <<"2", "0", "2", "0", "0", "8", "0", "1">>,
      <<"3">>,
      <<"2", "0", "2", "0", "0", "7", "3">> }

\* A "modules" object with two modules; the path of t is written with a
\* trailing slash.
TwoModules == (<<"s">> :> JStr(<<"/", "s">>)) @@ (<<"t">> :> JStr(<<"/", "t", "/">>))

\* "modules" objects a library file may carry; the last has an entry that is
\* not a string.
FileModules ==
    { EmptyMap,
      TwoModules,
      (<<"s">> :> JStr(<<"/", "s">>)) @@ (<<"t">> :> JNumber) @@ (<<"u">> :> JStr(<<"/", "u">>)) }

\* The library files the library object is exercised on.
LibFiles ==
    {NoFile, GarbageFile}
    \cup {JDoc(JStr(v), JEmptyObj, JObj(TwoModules)) : v \in FileVersions}
    \cup {JDoc(JStr(g_szVersion), JEmptyObj, JObj(f)) : f \in FileModules}
    \cup {JDoc(JStr(g_szVersion), drv, JEmptyObj) : drv \in {JMissing, JNumber}}
    \cup {JDoc(ver, JEmptyObj, JEmptyObj) : ver \in {JMissing, JNumber}}
    \cup {JDoc(JStr(g_szVersion), JEmptyObj, mods) : mods \in {JMissing, JNumber}}

\* Module names and paths passed to Insert, Remove and find.
LibNames == {<<"s">>, <<"t">>, <<"u">>}
LibPaths == {PathOf(<<"/", "t", "/">>), PathOf(<<"t">>)}

NoCall == [op |-> "none", name |-> <<>>, path |-> EmptyPath, ret |-> FALSE,
           err |-> "none", created |-> FALSE, prevCreated |-> FALSE,
           map |-> EmptyMap, jlib |-> JNull, file |-> NoFile, state |-> "fresh"]

\* The record of a call: its arguments, its result (for Read also the
\* exception and whether the file was created), the state before it, and
\* whether the call before it was a Read that created the file.
Call(op, name, path, ret, err, created) ==
    [op |-> op, name |-> name, path |-> path, ret |-> ret,
     err |-> err, created |-> created,
     prevCreated |-> (last.created \/ (last.op = "none" /\ last.prevCreated)),
     map |-> m_mapModulePaths, jlib |-> m_jlib, file |-> file, state |-> libState]

(***************************************************************************)
(* The library object driven call by call                                  *)
(***************************************************************************)

\* No command has been started.
NoCmd == [name |-> "none"]

\* The second process has not been started.
NoOther ==
    [pc |-> "idle", strDirectory |-> <<>>, strName |-> <<>>,
     map |-> EmptyMap, jlib |-> JNull, exit |-> 0]

InitCmd ==
    /\ other = NoOther
    /\ termios = "canonical"
    /\ cmd = NoCmd
    /\ pc = "idle"
    /\ exit = 0
    /\ errors = {}
    /\ strName = <<>>
    /\ atLoad = EmptyMap
    /\ m = 0
    /\ vecModulePaths = <<>>
    /\ vecDriverScripts = <<>>
    /\ vecWorkingDirs = <<>>
    /\ vecEnvScripts = <<>>
    /\ d = 0
    /\ derefEnd = FALSE
    /\ outDirs = {}
    /\ scripts = EmptyMap
    /\ executed = <<>>
    /\ childStatus = 0
    /\ lastKey = "none"

InitLib ==
    /\ file \in LibFiles
    /\ homeWritable \in BOOLEAN
    /\ m_mapModulePaths = EmptyMap
    /\ m_jlib = JNull
    /\ libState = "fresh"
    /\ last = NoCall
    /\ InitCmd

\* CMECLibrary lib; a new library object.
LibNew ==
    /\ libState # "fresh"
    /\ m_mapModulePaths' = EmptyMap
    /\ m_jlib' = JNull
    /\ libState' = "fresh"
    /\ last' = [NoCall EXCEPT !.prevCreated = last.created]
    /\ UNCHANGED <<file, homeWritable, termios, other, cmdVars, runVars>>

\* lib.Read()
LibRead ==
    LET r == ReadLib(file, homeWritable) IN
    /\ file' = r.file
    /\ m_mapModulePaths' = r.map
    /\ m_jlib' = r.jlib
    /\ libState' = IF r.ok THEN "loaded" ELSE "failed"
    /\ last' = Call("Read", <<>>, EmptyPath, r.ok, r.err, r.created)
    /\ UNCHANGED <<homeWritable, termios, other, cmdVars, runVars>>

\* lib.Insert(strModuleName, path)
LibInsert ==
    /\ libState = "loaded"
    /\ \E strModuleName \in LibNames, path \in LibPaths :
         LET r == InsertLib(m_mapModulePaths, m_jlib, strModuleName, path) IN
         /\ m_mapModulePaths' = r.map
         /\ m_jlib' = r.jlib
         /\ last' = Call("Insert", strModuleName, path, r.ret, "none", FALSE)
    /\ UNCHANGED <<file, homeWritable, termios, other, libState, cmdVars, runVars>>

\* lib.Remove(strModuleName)
LibRemove ==
    /\ libState = "loaded"
    /\ \E strModuleName \in LibNames :
         LET r == RemoveLib(m_mapModulePaths, m_jlib, strModuleName) IN
         /\ m_mapModulePaths' = r.map
         /\ m_jlib' = r.jlib
         /\ libState' = IF r.thrown THEN "failed" ELSE "loaded"
         /\ last' = Call("Remove", strModuleName, EmptyPath, r.ret, IF r.thrown THEN "logic" ELSE "none", FALSE)
    /\ UNCHANGED <<file, homeWritable, termios, other, cmdVars, runVars>>

\* lib.Write()
LibWrite ==
    /\ libState = "loaded"
    /\ LET r == WriteLib(file, m_jlib, homeWritable) IN
         /\ file' = r.file
         /\ libState' = IF r.ok THEN "loaded" ELSE "failed"
         /\ last' = Call("Write", <<>>, EmptyPath, r.ok, IF r.ok THEN "none" ELSE "open", FALSE)
    /\ UNCHANGED <<homeWritable, termios, other, m_mapModulePaths, m_jlib, cmdVars, runVars>>

NextLib == LibNew \/ LibRead \/ LibInsert \/ LibRemove \/ LibWrite

SpecLib == InitLib /\ [][NextLib]_vars

(***************************************************************************)
(* Claims about the library object (checked under SpecLib)                 *)
(***************************************************************************)

\* C1: after Read and any sequence of Insert and Remove calls, the name->path
\* map and the "modules" object of the JSON document hold exactly the same
\* module names, each with the same path; what Write persists is that
\* document.
C1_MapAndDocumentSynchronized ==
    /\ libState = "loaded" =>
         /\ m_jlib.t = "doc"
         /\ m_jlib.modules.t = "object"
         /\ DOMAIN m_mapModulePaths = DOMAIN m_jlib.modules.f
         /\ \A n \in DOMAIN m_mapModulePaths :
               /\ m_jlib.modules.f[n].t = "string"
               /\ PathOf(m_jlib.modules.f[n].s) = m_mapModulePaths[n]
    /\ (last.op = "Write" /\ last.ret) => file = m_jlib

\* C1 witness: a loaded library after an Insert and a Remove that both
\* succeeded, still holding a module, has been written.
C1_Witness ==
    /\ last.op = "Write" /\ last.ret
    /\ <<"u">> \in DOMAIN m_mapModulePaths
    /\ <<"s">> \notin DOMAIN m_mapModulePaths
    /\ <<"t">> \in DOMAIN m_mapModulePaths

\* C2: Insert of an absent name returns true and find then returns the path
\* given; Insert of a present name returns false, does not throw, and leaves
\* the library unchanged.
C2_InsertContract ==
    last.op = "Insert" =>
        IF last.name \notin DOMAIN last.map
        THEN /\ last.ret
             /\ FindLib(m_mapModulePaths, last.name) = [found |-> TRUE, path |-> last.path]
        ELSE /\ ~last.ret
             /\ libState = "loaded"
             /\ m_mapModulePaths = last.map
             /\ m_jlib = last.jlib
             /\ SizeLib(m_mapModulePaths) = SizeLib(last.map)

\* C2 witness: a second Insert of a name that a first Insert added, with
\* another path, has been refused.
C2_Witness ==
    /\ last.op = "Insert" /\ ~last.ret
    /\ last.name = <<"u">>
    /\ last.path # m_mapModulePaths[<<"u">>]

\* C3: Remove of an absent name returns false and changes nothing; Remove of
\* a present name returns true, find then finds nothing, the size is one
\* less and every other entry is untouched.
C3_RemoveContract ==
    last.op = "Remove" =>
        IF last.name \notin DOMAIN last.map
        THEN /\ ~last.ret
             /\ m_mapModulePaths = last.map
             /\ m_jlib = last.jlib
        ELSE /\ last.ret
             /\ libState = "loaded"
             /\ ~FindLib(m_mapModulePaths, last.name).found
             /\ SizeLib(m_mapModulePaths) = SizeLib(last.map) - 1
             /\ \A n \in DOMAIN last.map \ {last.name} :
                   /\ n \in DOMAIN m_mapModulePaths
                   /\ m_mapModulePaths[n] = last.map[n]

\* C3 witness: a present name has been removed from a library that holds
\* other modules.
C3_Witness ==
    /\ last.op = "Remove" /\ last.ret
    /\ SizeLib(m_mapModulePaths) >= 1

\* C5: Read of a library file that does not exist writes the empty skeleton
\* and reads it back as a library of size 0; the next Read finds the file,
\* passes the checks and returns the same empty library without creating
\* the file again.
C5_CreateOnFirstUse ==
    /\ (last.op = "Read" /\ last.file = NoFile /\ homeWritable) =>
          /\ last.ret /\ last.created
          /\ libState = "loaded"
          /\ file = JDoc(JStr(g_szVersion), JEmptyObj, JEmptyObj)
          /\ SizeLib(m_mapModulePaths) = 0
    /\ (last.op = "Read" /\ last.prevCreated) =>
          /\ last.ret /\ ~last.created
          /\ libState = "loaded"
          /\ file = last.file
          /\ SizeLib(m_mapModulePaths) = 0

\* C5 witness: a Read right after the Read that created the file.
C5_Witness == last.op = "Read" /\ last.prevCreated /\ last.ret

\* a is lexicographically greater than b: at the first position where they
\* differ a has the greater character, or b is a proper prefix of a.
LexGreater(a, b) ==
    \E i \in 1..Len(a) :
        /\ \A j \in 1..(i - 1) : j <= Len(b) /\ a[j] = b[j]
        /\ (i > Len(b) \/ (i <= Len(b) /\ Code(a[i]) > Code(b[i])))

\* The version string of a library file that passes the key and type checks.
CheckedVersion(f) ==
    f.t = "doc" /\ f.driver.t = "object" /\ f.version.t = "string" /\ f.modules.t = "object"

\* C6 as stated: a Read that fails on a version lexicographically greater
\* than the driver's leaves the file and the in-memory library as they were
\* before the load.
C6_VersionErrorMutatesNothing ==
    (last.op = "Read" /\ last.state = "fresh" /\ last.err = "version") =>
        /\ file = last.file
        /\ m_mapModulePaths = last.map
        /\ m_jlib = last.jlib

\* C6 amended: a Read of a file whose version is lexicographically greater
\* than the driver's throws the version error, leaves the file untouched and
\* loads no module into the name->path map (m_jlib holds the parsed
\* document); an equal or smaller version never gives the version error.
C6_VersionCheck ==
    (last.op = "Read" /\ CheckedVersion(last.file)) =>
        IF LexGreater(last.file.version.s, g_szVersion)
        THEN /\ ~last.ret /\ last.err = "version"
             /\ libState = "failed"
             /\ file = last.file
             /\ m_mapModulePaths = EmptyMap
             /\ m_jlib = last.file
        ELSE last.err # "version"

\* C6 witness: a Read has failed on the version "3", which is shorter than
\* the driver's but sorts after it.
C6_Witness ==
    /\ last.op = "Read" /\ last.err = "version"
    /\ last.file.version.s = <<"3">>
    /\ last.file.modules.f # EmptyMap

(***************************************************************************)
(* cmec_run: selectors and their resolution                                *)
(***************************************************************************)

\* The position of the first '/' of str, or 0 when it has none.
FirstSlash(str) ==
    IF \E i \in 1..Len(str) : str[i] = "/"
    THEN CHOOSE i \in 1..Len(str) : str[i] = "/" /\ \A j \in 1..(i - 1) : str[j] # "/"
    ELSE 0

\* The split of a selector into strParentModule and strConfiguration.
SplitSelector(str) ==
    LET i == FirstSlash(str)
        parent == IF i = 0 THEN <<>> ELSE SubSeq(str, 1, i - 1)
        config == IF i = 0 THEN <<>> ELSE SubSeq(str, i + 1, Len(str))
    IN IF parent = <<>>
       THEN [strParentModule |-> str, strConfiguration |-> <<>>]
       ELSE [strParentModule |-> parent, strConfiguration |-> config]

\* Checks that let a selector end in a slash.
CheckSelector_NoDangling(str) ==
    IF Len(str) = 0 THEN "throw"
    ELSE IF \E i \in 1..Len(str) : ~IsNameChar(str[i]) THEN "NonAlphanumeric"
    ELSE "ok"

\* The checks on a selector before it is split: "throw" for the empty
\* selector, the error reported for one that is rejected, "ok" otherwise.
CheckSelector(str) ==
    IF Len(str) = 0 THEN "throw"
    ELSE IF str[Len(str)] = "/" THEN "DanglingSlash"
    ELSE IF \E i \in 1..Len(str) : ~IsNameChar(str[i]) THEN "NonAlphanumeric"
    ELSE "ok"

\* One driver of the plan: what is pushed on vecModulePaths,
\* vecDriverScripts and vecWorkingDirs.
Driver(modulePath, driverScript, workingDir) ==
    [modulePath |-> modulePath, driverScript |-> driverScript, workingDir |-> workingDir]

\* What one turn of the selector loop comes to: res is "ok" (go on with the
\* next selector), "return" (return -1) or "throw"; err is the error
\* printed; drivers are the entries pushed.
Resolved(res, err, drivers) == [res |-> res, err |-> err, drivers |-> drivers]

\* The loop of cmec_run over the configurations of a TOC, in the order of
\* m_mapConfigs.
RECURSIVE ExpandConfigs(_, _, _, _, _, _)
\* One turn of that loop for a configuration that is selected, its settings
\* file read as r.
ExpandConfig(rest, configs, strConfiguration, modulePath, tocName, acc, r) ==
    IF r.res = "throw" THEN Resolved("throw", "Exception", <<>>)
    ELSE IF r.res = "false" THEN Resolved("return", "MalformedSettings", <<>>)
    ELSE ExpandConfigs(rest, configs, strConfiguration, modulePath, tocName,
             Append(acc, Driver(modulePath,
                                PathJoin(modulePath, PathOf(r.driver)),
                                PathJoin(PathOf(tocName), PathOf(r.name)))))

ExpandConfigs(keys, configs, strConfiguration, modulePath, tocName, acc) ==
    IF keys = <<>>
    THEN IF strConfiguration # <<>> /\ acc = <<>>
         THEN Resolved("return", "NoConfiguration", <<>>)
         ELSE Resolved("ok", "none", acc)
    ELSE IF strConfiguration # <<>> /\ strConfiguration # Head(keys)
    THEN ExpandConfigs(Tail(keys), configs, strConfiguration, modulePath, tocName, acc)
    ELSE ExpandConfig(Tail(keys), configs, strConfiguration, modulePath, tocName, acc,
                      ReadFromFile(configs[Head(keys)]))

\* A settings branch that does not refuse a configuration part.
ResolveSettings_AnyConfiguration(strConfiguration, modulePath, r) ==
    IF r.res = "throw" THEN Resolved("throw", "Exception", <<>>)
    ELSE IF r.res = "false" THEN Resolved("return", "MalformedSettings", <<>>)
    ELSE Resolved("ok", "none",
                  <<Driver(modulePath, PathJoin(modulePath, PathOf(r.driver)), PathOf(r.name))>>)

\* The branch of the selector loop for a module with settings.json, the
\* file read as r.
ResolveSettings(strConfiguration, modulePath, r) ==
    IF strConfiguration # <<>> THEN Resolved("return", "SingleConfiguration", <<>>)
    ELSE IF r.res = "throw" THEN Resolved("throw", "Exception", <<>>)
    ELSE IF r.res = "false" THEN Resolved("return", "MalformedSettings", <<>>)
    ELSE Resolved("ok", "none",
                  <<Driver(modulePath, PathJoin(modulePath, PathOf(r.driver)), PathOf(r.name))>>)

\* CMECModuleTOC::GetName on a document that ReadFromModulePath accepted.
TOCName(toc) == IF toc.res = "true" THEN toc.jcmec.module.name.s ELSE <<>>

\* A contents branch that takes every configuration whatever the selector
\* asks for.
ResolveTOC_AllConfigs(strConfiguration, modulePath, toc) ==
    IF toc.res = "throw" THEN Resolved("throw", "Exception", <<>>)
    ELSE IF toc.res = "false" THEN Resolved("return", "MalformedContents", <<>>)
    ELSE ExpandConfigs(SortedKeys(DOMAIN toc.configs), toc.configs,
                       <<>>, modulePath, TOCName(toc), <<>>)

\* The branch of the selector loop for a module with contents.json, read
\* as toc.
ResolveTOC(strConfiguration, modulePath, toc) ==
    IF toc.res = "throw" THEN Resolved("throw", "Exception", <<>>)
    ELSE IF toc.res = "false" THEN Resolved("return", "MalformedContents", <<>>)
    ELSE ExpandConfigs(SortedKeys(DOMAIN toc.configs), toc.configs,
                       strConfiguration, modulePath, TOCName(toc), <<>>)

\* The body of the selector loop of cmec_run after the library lookup, for
\* the module path the iterator gives.
ResolveModule(strParentModule, strConfiguration, modulePath) ==
    IF SettingsExistsInModulePath(modulePath)
    THEN ResolveSettings(strConfiguration, modulePath,
                         ReadFromFile(PathJoin(modulePath, PathOf(g_szCMECSettingsName))))
    ELSE IF TOCExistsInModulePath(modulePath)
    THEN ResolveTOC(strConfiguration, modulePath, ReadFromModulePath(modulePath))
    ELSE Resolved("ok", "NoDescriptor", <<>>)

\* What dereferencing lib.end() may give for itmodule->second: the memory
\* behind the map's header node read as a path.  It may name no existing
\* directory, or by accident a directory that holds a descriptor.
GarbagePaths == {EmptyPath, PathOf(<<"/", "s">>)}

(***************************************************************************)
(* The commands                                                            *)
(***************************************************************************)

\* The longest list of selectors given to run.
MaxSel == 2

\* The library a user has on disk: a single-configuration module s, a
\* multi-configuration module t, and a module e whose directory holds no
\* descriptor.
InstalledModules ==
    (<<"s">> :> JStr(<<"/", "s">>)) @@ (<<"t">> :> JStr(<<"/", "t">>))
    @@ (<<"e">> :> JStr(<<"/", "e">>))

\* The library file when the first command starts.
CmdFiles ==
    { NoFile,
      JDoc(JStr(g_szVersion), JEmptyObj, JObj(InstalledModules)),
      JDoc(JStr(<<"2", "0", "2", "0", "0", "8", "0", "1">>), JEmptyObj, JObj(InstalledModules)) }

\* Arguments of register: module directories, one of them relative and
\* written with a trailing slash.
RegisterDirs == { <<"/", "t">>, <<"u", "/">>, <<"/", "s">>, <<"/", "e">> }

\* Arguments of unregister.
UnregisterNames == { <<"t">>, <<"u">>, <<"z">> }

\* Selectors given to run.
Selectors ==
    { <<"s">>, <<"s", "/", "x">>, <<"t">>, <<"t", "/", "a">>, <<"t", "/", "z">>,
      <<"z">>, <<"e">> }

RECURSIVE SeqsUpTo(_, _)
SeqsUpTo(S, n) ==
    IF n = 0 THEN {<<>>}
    ELSE LET shorter == SeqsUpTo(S, n - 1) IN
         shorter \cup {Append(q, x) : q \in {r \in shorter : Len(r) = n - 1}, x \in S}

\* The three data directory arguments of run, each "dir" (an existing
\* directory), "empty" (the empty string), "missing" or "file".
GoodDirs == [obs |-> "dir", model |-> "dir", wk |-> "dir"]

BadDirs ==
    { [obs |-> "missing", model |-> "dir", wk |-> "dir"],
      [obs |-> "dir", model |-> "file", wk |-> "dir"],
      [obs |-> "dir", model |-> "dir", wk |-> "empty"] }

\* pathWorkingDir of run, made absolute.
pathWorkingDir == PathOf(<<"/", "w">>)

\* The directories under the working directory before a run: those an
\* earlier run of t/a has left; s and t/b have none yet.
ExistingOutDirs ==
    { {PathJoin(pathWorkingDir, PathOf(<<"t">>)),
       PathJoin(pathWorkingDir, PathOf(<<"t", "/", "a">>))} }

\* What Terminal::GetSingleCharacter may return at the overwrite prompt:
\* a key, newline, carriage return, or the end of input.
Keys == {"y", "Y", "n", "N", "nl", "cr", "q", "eof"}

\* The exit status of a process whose main returns ret.
ExitStatus(ret) == ret % 256

\* The exit status the shell reports for a process killed by SIGSEGV.
Crashed == 139

Init ==
    /\ file \in CmdFiles
    /\ homeWritable \in BOOLEAN
    /\ m_mapModulePaths = EmptyMap
    /\ m_jlib = JNull
    /\ libState = "fresh"
    /\ last = NoCall
    /\ InitCmd

\* main is entered: a command starts with a library object not yet read
\* and nothing reported.
Start(c, dirs) ==
    /\ pc = "idle"
    /\ cmd' = c
    /\ outDirs' = dirs
    /\ UNCHANGED <<file, homeWritable, termios, other, libVars, last, exit, errors, strName, atLoad,
                   m, vecModulePaths, vecDriverScripts, vecWorkingDirs, vecEnvScripts, d,
                   derefEnd, scripts, executed, childStatus, lastKey>>

\* The command ends: main returns, or the process is killed.
Finish(status) ==
    /\ pc' = "done"
    /\ exit' = status

\* The process is gone; the next command will start afresh, the shell
\* having put the terminal back into canonical mode.
Exit ==
    /\ pc = "done"
    /\ termios' = "canonical"
    /\ m_mapModulePaths' = EmptyMap
    /\ m_jlib' = JNull
    /\ libState' = "fresh"
    /\ cmd' = NoCmd
    /\ pc' = "idle"
    /\ exit' = 0
    /\ errors' = {}
    /\ strName' = <<>>
    /\ atLoad' = EmptyMap
    /\ m' = 0 /\ d' = 0
    /\ vecModulePaths' = <<>> /\ vecDriverScripts' = <<>>
    /\ vecWorkingDirs' = <<>> /\ vecEnvScripts' = <<>>
    /\ derefEnd' = FALSE
    /\ outDirs' = {}
    /\ scripts' = EmptyMap
    /\ executed' = <<>>
    /\ childStatus' = 0
    /\ lastKey' = "none"
    /\ UNCHANGED <<file, homeWritable, other, last>>

\* lib.Read() of a command: the library object and the file afterwards.
CmdRead(r) ==
    /\ file' = r.file
    /\ m_mapModulePaths' = r.map
    /\ m_jlib' = r.jlib
    /\ libState' = IF r.ok THEN "loaded" ELSE "failed"
    /\ atLoad' = r.map

\* main: register <module directory>
StartRegister ==
    \E strDirectory \in RegisterDirs :
        /\ Start([name |-> "register", strDirectory |-> strDirectory], {})
        /\ pc' = "register"

\* main: unregister <module name>
StartUnregister ==
    \E strModuleName \in UnregisterNames :
        /\ Start([name |-> "unregister", strModuleName |-> strModuleName], {})
        /\ pc' = "unregister"

\* main: list [all]
StartList ==
    \E fListAll \in BOOLEAN :
        /\ Start([name |-> "list", fListAll |-> fListAll], {})
        /\ pc' = "list"

\* Module arguments of run that are no selectors: the empty string, two
\* that end in a slash, one with a hyphen and one with a dot after the slash.
BadSelectors ==
    { <<>>, <<"s", "/">>, <<"/">>, <<"s", "-">>, <<"t", "/", ".">> }

\* The command lines of run: every list of selectors with directories that
\* are there, one module with a directory argument that is not, and each
\* argument that is no selector, alone and after a module.
RunCommands ==
    {[name |-> "run", dirs |-> GoodDirs, vecModules |-> v] : v \in SeqsUpTo(Selectors, MaxSel)}
    \cup {[name |-> "run", dirs |-> b, vecModules |-> << <<"s">> >>] : b \in BadDirs}
    \cup {[name |-> "run", dirs |-> GoodDirs, vecModules |-> <<x>>] : x \in BadSelectors}
    \cup {[name |-> "run", dirs |-> GoodDirs, vecModules |-> << <<"s">>, x >>] : x \in BadSelectors}

\* main: run <obs dir> <model dir> <working dir> <modules>
StartRun ==
    \E c \in RunCommands, existing \in ExistingOutDirs :
        /\ Start(c, existing)
        /\ pc' = IF Len(c.vecModules) >= 1 THEN "run" ELSE "usage"

\* main: the usage message of a command given too few arguments
Usage ==
    /\ pc = "usage"
    /\ errors' = errors \cup {"Usage"}
    /\ Finish(1)
    /\ UNCHANGED <<file, homeWritable, termios, other, libVars, last, cmd, strName, atLoad, runVars>>

\* CMECModuleTOC::GetName and GetLongName on the document read: the string,
\* "throw" when the value is there but of the wrong type, "undefined" when
\* the key is not there (operator[] of a const json on a missing key).
TOCGet(jcmec, key) ==
    LET v == IF jcmec.module.t = "object" THEN jcmec.module[key] ELSE JMissing IN
    IF jcmec.module.t = "missing" THEN [res |-> "undefined", s |-> <<>>]
    ELSE IF jcmec.module.t # "object" THEN [res |-> "throw", s |-> <<>>]
    ELSE IF v.t = "missing" THEN [res |-> "undefined", s |-> <<>>]
    ELSE IF v.t # "string" THEN [res |-> "throw", s |-> <<>>]
    ELSE [res |-> "ok", s |-> v.s]

\* An outcome of the first part of cmec_register: res is "ok" with the
\* module name, "throw", "return" (return -1) or "crash".
Named(res, name) == [res |-> res, name |-> name]

\* cmec_register on a module with settings.json, read as r.
NameFromSettings(r) ==
    IF r.res = "throw" THEN {Named("throw", <<>>)} ELSE {Named("ok", r.name)}

\* cmec_register on a module with contents.json, given what GetName and
\* GetLongName come to.  Reading a key that is not there is undefined: the
\* process is killed or goes on with a string that was never set.
NameFromTOC(res, nm, ln) ==
    IF res = "throw" THEN {Named("throw", <<>>)}
    ELSE IF nm.res = "undefined" THEN {Named("crash", <<>>), Named("ok", <<>>)}
    ELSE IF nm.res = "throw" THEN {Named("throw", <<>>)}
    ELSE IF ln.res = "undefined" THEN {Named("crash", <<>>), Named("ok", nm.s)}
    ELSE IF ln.res = "throw" THEN {Named("throw", <<>>)}
    ELSE {Named("ok", nm.s)}

\* The names read from the TOC read as toc.
NamesOfTOC(toc) ==
    NameFromTOC(toc.res,
                IF toc.res = "throw" THEN NotRead("throw") ELSE TOCGet(toc.jcmec, "name"),
                IF toc.res = "throw" THEN NotRead("throw") ELSE TOCGet(toc.jcmec, "long_name"))

\* The first part of cmec_register: the outcomes of reading the descriptor
\* of the module directory.  The return values of ReadFromFile and
\* ReadFromModulePath are not looked at.  settings.json is read from the
\* module directory itself, which is no JSON file.
RegisterName(pathModule) ==
    IF SettingsExistsInModulePath(pathModule)
    THEN NameFromSettings(ReadFromFile(pathModule))
    ELSE IF TOCExistsInModulePath(pathModule)
    THEN NamesOfTOC(ReadFromModulePath(pathModule))
    ELSE {Named("return", <<>>)}

\* cmec_register up to lib.Read(): the descriptor is read and the library
\* loaded.
RegisterRead ==
    /\ pc = "register"
    /\ \E o \in RegisterName(PathOf(cmd.strDirectory)), r \in {ReadLib(file, homeWritable)} :
         IF o.res = "ok"
         THEN /\ strName' = o.name
              /\ CmdRead(r)
              /\ IF r.ok
                 THEN pc' = "register_insert" /\ UNCHANGED <<exit, errors>>
                 ELSE errors' = errors \cup {r.err} /\ Finish(1)
         ELSE /\ errors' = errors \cup {IF o.res = "return" THEN "NoDescriptor" ELSE "Exception"}
              /\ Finish(IF o.res = "return" THEN ExitStatus(-1)
                        ELSE IF o.res = "crash" THEN Crashed ELSE 1)
              /\ UNCHANGED <<file, libVars, strName, atLoad>>
    /\ UNCHANGED <<homeWritable, termios, other, last, cmd, runVars>>

\* cmec_register from lib.Insert() on: the module is inserted and the
\* library written.
RegisterWrite ==
    /\ pc = "register_insert"
    /\ \E ins \in {InsertLib(m_mapModulePaths, m_jlib, strName, PathOf(cmd.strDirectory))} :
       \E w \in {WriteLib(file, ins.jlib, homeWritable)} :
       /\ m_mapModulePaths' = ins.map
       /\ m_jlib' = ins.jlib
       /\ IF ~ins.ret
          THEN /\ errors' = errors \cup {"AlreadyExists"}
               /\ Finish(ExitStatus(-1))
               /\ UNCHANGED <<file, libState>>
          ELSE /\ file' = w.file
               /\ libState' = IF w.ok THEN "loaded" ELSE "failed"
               /\ errors' = IF w.ok THEN errors ELSE errors \cup {"open"}
               /\ Finish(IF w.ok THEN 0 ELSE 1)
    /\ UNCHANGED <<homeWritable, termios, other, last, cmd, strName, atLoad, runVars>>

\* cmec_unregister up to lib.Read()
UnregisterRead ==
    /\ pc = "unregister"
    /\ \E r \in {ReadLib(file, homeWritable)} :
       /\ CmdRead(r)
       /\ IF r.ok
          THEN pc' = "unregister_remove" /\ UNCHANGED <<exit, errors>>
          ELSE errors' = errors \cup {r.err} /\ Finish(1)
    /\ UNCHANGED <<homeWritable, termios, other, last, cmd, strName, runVars>>

\* cmec_unregister from lib.Remove() on
UnregisterWrite ==
    /\ pc = "unregister_remove"
    /\ \E rem \in {RemoveLib(m_mapModulePaths, m_jlib, cmd.strModuleName)} :
       \E w \in {WriteLib(file, rem.jlib, homeWritable)} :
       /\ m_mapModulePaths' = rem.map
       /\ m_jlib' = rem.jlib
       /\ IF rem.thrown
          THEN /\ errors' = errors \cup {"logic"}
               /\ Finish(1)
               /\ libState' = "failed"
               /\ UNCHANGED file
          ELSE IF ~rem.ret
          THEN /\ errors' = errors \cup {"NotFound"}
               /\ Finish(ExitStatus(-1))
               /\ UNCHANGED <<file, libState>>
          ELSE /\ file' = w.file
               /\ libState' = IF w.ok THEN "loaded" ELSE "failed"
               /\ errors' = IF w.ok THEN errors ELSE errors \cup {"open"}
               /\ Finish(IF w.ok THEN 0 ELSE 1)
    /\ UNCHANGED <<homeWritable, termios, other, last, cmd, strName, atLoad, runVars>>

\* cmec_list
List ==
    /\ pc = "list"
    /\ \E r \in {ReadLib(file, homeWritable)} :
       /\ CmdRead(r)
       /\ IF r.ok
          THEN UNCHANGED errors /\ Finish(0)
          ELSE errors' = errors \cup {r.err} /\ Finish(1)
    /\ UNCHANGED <<homeWritable, termios, other, last, cmd, strName, runVars>>

\* Whether a data directory argument of cmec_run is accepted.
DataDirOk(kind) == kind = "dir"

\* cmec_run up to lib.Read(): the three directories are verified and the
\* library loaded.
RunRead ==
    /\ pc = "run"
    /\ \E r \in {ReadLib(file, homeWritable)} :
       IF ~(DataDirOk(cmd.dirs.obs) /\ DataDirOk(cmd.dirs.model) /\ DataDirOk(cmd.dirs.wk))
       THEN /\ errors' = errors \cup {"DataDir"}
            /\ Finish(ExitStatus(-1))
            /\ UNCHANGED <<file, libVars, atLoad>>
       ELSE /\ CmdRead(r)
            /\ IF r.ok
               THEN pc' = "resolve" /\ UNCHANGED <<exit, errors>>
               ELSE errors' = errors \cup {r.err} /\ Finish(1)
    /\ UNCHANGED <<homeWritable, termios, other, last, cmd, strName, runVars>>

\* cmec_run: one turn of the loop over vecModules.  A selector whose parent
\* module is not in the library is reported, and the end iterator is then
\* dereferenced all the same: the process is killed, an exception is thrown
\* while the path is copied, or the loop goes on with whatever path is read.
RunResolve ==
    /\ pc = "resolve"
    /\ m < Len(cmd.vecModules)
    /\ \E chk \in {CheckSelector(cmd.vecModules[m + 1])},
          sp \in {SplitSelector(cmd.vecModules[m + 1])} :
       \E it \in {FindLib(m_mapModulePaths, sp.strParentModule)} :
       IF chk = "throw"
       THEN /\ errors' = errors \cup {"ZeroLength"} /\ Finish(1)
            /\ UNCHANGED <<m, vecModulePaths, vecDriverScripts, vecWorkingDirs, derefEnd>>
       ELSE IF chk # "ok"
       THEN /\ errors' = errors \cup {chk} /\ Finish(ExitStatus(-1))
            /\ UNCHANGED <<m, vecModulePaths, vecDriverScripts, vecWorkingDirs, derefEnd>>
       ELSE \E outcome \in IF it.found THEN {"path"} ELSE {"crash", "throw", "path"} :
            \E modulePath \in IF it.found THEN {it.path} ELSE GarbagePaths :
            \E r \in {ResolveModule(sp.strParentModule, sp.strConfiguration, modulePath)} :
            \E reported \in {IF it.found THEN {} ELSE {"NotFound"}} :
            /\ derefEnd' = (derefEnd \/ ~it.found)
            /\ IF outcome = "crash"
               THEN /\ errors' = errors \cup reported /\ Finish(Crashed)
                    /\ UNCHANGED <<m, vecModulePaths, vecDriverScripts, vecWorkingDirs>>
               ELSE IF outcome = "throw" \/ r.res = "throw"
               THEN /\ errors' = errors \cup reported \cup {"Exception"} /\ Finish(1)
                    /\ UNCHANGED <<m, vecModulePaths, vecDriverScripts, vecWorkingDirs>>
               ELSE IF r.res = "return"
               THEN /\ errors' = errors \cup reported \cup {r.err} /\ Finish(ExitStatus(-1))
                    /\ UNCHANGED <<m, vecModulePaths, vecDriverScripts, vecWorkingDirs>>
               ELSE /\ errors' = errors \cup reported
                                 \cup (IF r.err = "none" THEN {} ELSE {r.err})
                    /\ vecModulePaths' =
                          vecModulePaths \o [i \in 1..Len(r.drivers) |-> r.drivers[i].modulePath]
                    /\ vecDriverScripts' =
                          vecDriverScripts \o [i \in 1..Len(r.drivers) |-> r.drivers[i].driverScript]
                    /\ vecWorkingDirs' =
                          vecWorkingDirs \o [i \in 1..Len(r.drivers) |-> r.drivers[i].workingDir]
                    /\ m' = m + 1
                    /\ UNCHANGED <<pc, exit>>
    /\ UNCHANGED <<file, homeWritable, termios, other, libVars, last, cmd, strName, atLoad,
                   vecEnvScripts, d, outDirs, scripts, executed, childStatus, lastKey>>

\* cmec_run after the loop: the check for zero drivers.
RunCheckDrivers ==
    /\ pc = "resolve"
    /\ m = Len(cmd.vecModules)
    /\ IF Len(vecDriverScripts) = 0
       THEN errors' = errors \cup {"NoDrivers"} /\ Finish(ExitStatus(-1))
       ELSE pc' = "dirs" /\ UNCHANGED <<exit, errors>>
    /\ UNCHANGED <<file, homeWritable, termios, other, libVars, last, cmd, strName, atLoad, runVars>>

\* Whether path p is q or lies below it.
IsBelow(p, q) ==
    /\ Len(p.parts) >= Len(q.parts)
    /\ SubSeq(p.parts, 1, Len(q.parts)) = q.parts

\* pathOut.exists() for a path at or below the working directory.
OutExists(pathOut) == pathOut = pathWorkingDir \/ pathOut \in outDirs

\* The directories create_directories(pathOut) makes sure exist: pathOut and
\* those above it, up to the working directory.
CreateDirectories(pathOut) ==
    {[absolute |-> TRUE, parts |-> SubSeq(pathOut.parts, 1, k)] :
        k \in (Len(pathWorkingDir.parts) + 1)..Len(pathOut.parts)}

\* The directories left by "rm -rf pathOut".
RemoveAll(dirs, pathOut) == {p \in dirs : ~IsBelow(p, pathOut)}

\* The end of one turn of the loop that creates the output directories:
\* create_directories, and on to the next driver or the next phase.
CreateAndAdvance(dirs, pathOut, made) ==
    IF made
    THEN /\ outDirs' = dirs \cup CreateDirectories(pathOut)
         /\ d' = IF d + 1 = Len(vecDriverScripts) THEN 0 ELSE d + 1
         /\ pc' = IF d + 1 = Len(vecDriverScripts) THEN "scripts" ELSE "dirs"
         /\ UNCHANGED <<exit, errors>>
    ELSE /\ outDirs' = dirs
         /\ errors' = errors \cup {"CreateDirectory"}
         /\ Finish(ExitStatus(-1))
         /\ UNCHANGED d

\* cmec_run: one turn of the loop that creates the output directories, for
\* a directory that does not exist yet, or up to the overwrite prompt for
\* one that does.
RunCreateDir ==
    /\ pc = "dirs"
    /\ \E pathOut \in {PathJoin(pathWorkingDir, vecWorkingDirs[d + 1])} :
       IF OutExists(pathOut)
       THEN pc' = "prompt" /\ UNCHANGED <<exit, errors, d, outDirs>>
       ELSE \E made \in BOOLEAN : CreateAndAdvance(outDirs, pathOut, made)
    /\ UNCHANGED <<file, homeWritable, termios, other, libVars, last, cmd, strName, atLoad,
                   m, vecModulePaths, vecDriverScripts, vecWorkingDirs, vecEnvScripts,
                   derefEnd, scripts, executed, childStatus, lastKey>>

\* An overwrite prompt at which every key but y and Y is a refusal.
KeyMeans_DefaultNo(ch) ==
    IF ch \in {"y", "Y"} THEN "remove" ELSE "refuse"

\* What the loop at the overwrite prompt does with the character read:
\* fRemove = true, fRemove = false, or read again.
KeyMeans(ch) ==
    IF ch \in {"y", "Y"} THEN "remove"
    ELSE IF ch \in {"nl", "cr", "n", "N"} THEN "refuse"
    ELSE "again"

\* A GetSingleCharacter that leaves the terminal in single character mode.
GetSingleCharacter_NoRestore(mode, ch, canSet, canRestore) ==
    IF ~canSet THEN [thrown |-> TRUE, c |-> "none", mode |-> mode]
    ELSE [thrown |-> FALSE, c |-> ch, mode |-> "raw"]

\* Terminal::GetSingleCharacter with the terminal in mode mode and ch next
\* on stdin: the mode is saved, single character mode set, one character
\* read and the saved mode set again.  It throws when the mode cannot be
\* set (canSet) or set back (canRestore).
GetSingleCharacter(mode, ch, canSet, canRestore) ==
    LET t_saved == mode IN
    IF ~canSet THEN [thrown |-> TRUE, c |-> "none", mode |-> mode]
    ELSE IF ~canRestore THEN [thrown |-> TRUE, c |-> "none", mode |-> "raw"]
    ELSE [thrown |-> FALSE, c |-> ch, mode |-> t_saved]

\* cmec_run: one key read at the overwrite prompt, and what follows it.
RunPrompt ==
    /\ pc = "prompt"
    /\ \E pathOut \in {PathJoin(pathWorkingDir, vecWorkingDirs[d + 1])} :
       \E ch \in Keys, canSet \in BOOLEAN, canRestore \in BOOLEAN :
       \E r \in {GetSingleCharacter(termios, ch, canSet, canRestore)} :
          /\ termios' = r.mode
          /\ IF r.thrown
             THEN /\ errors' = errors \cup {"Terminal"}
                  /\ Finish(1)
                  /\ UNCHANGED <<d, outDirs, lastKey>>
             ELSE /\ lastKey' = r.c
                  /\ IF KeyMeans(r.c) = "remove"
                     THEN \E removed \in BOOLEAN, made \in BOOLEAN :
                             IF removed
                             THEN CreateAndAdvance(RemoveAll(outDirs, pathOut), pathOut, made)
                             ELSE /\ errors' = errors \cup {"Remove"}
                                  /\ Finish(ExitStatus(-1))
                                  /\ UNCHANGED <<d, outDirs>>
                     ELSE IF KeyMeans(r.c) = "refuse"
                     THEN /\ errors' = errors \cup {"Overwrite"}
                          /\ Finish(ExitStatus(-1))
                          /\ UNCHANGED <<d, outDirs>>
                     ELSE UNCHANGED <<pc, exit, errors, d, outDirs>>
    /\ UNCHANGED <<file, homeWritable, other, libVars, last, cmd, strName, atLoad,
                   m, vecModulePaths, vecDriverScripts, vecWorkingDirs, vecEnvScripts,
                   derefEnd, scripts, executed, childStatus>>

\* The name of the environment script.
cmec_run_bash == <<"c", "m", "e", "c", "_", "r", "u", "n", ".", "b", "a", "s", "h">>

\* A script path that is that of the first driver for every driver.
EnvScriptPath_First(i) ==
    PathJoin(PathJoin(pathWorkingDir, vecWorkingDirs[1]), PathOf(cmec_run_bash))

\* pathScript of driver i.
EnvScriptPath(i) ==
    PathJoin(PathJoin(pathWorkingDir, vecWorkingDirs[i]), PathOf(cmec_run_bash))

\* pathObsDir and pathModelDir of run, made absolute, for directory
\* arguments that pass the checks.
pathObsDir == PathOf(<<"/", "o">>)
pathModelDir == PathOf(<<"/", "m">>)

\* A script whose two data exports are swapped.
EnvScript_SwappedData(i) ==
    [CMEC_CODE_DIR |-> StrOf(vecModulePaths[i]),
     CMEC_OBS_DATA |-> StrOf(pathModelDir),
     CMEC_MODEL_DATA |-> StrOf(pathObsDir),
     CMEC_WK_DIR |-> StrOf(PathJoin(pathWorkingDir, vecWorkingDirs[i])),
     command |-> StrOf(vecDriverScripts[i]),
     executable |-> TRUE]

\* The environment script of driver i: the four exports, the command of
\* its last line, and the mode chmod u+x gives the file.
EnvScript(i) ==
    [CMEC_CODE_DIR |-> StrOf(vecModulePaths[i]),
     CMEC_OBS_DATA |-> StrOf(pathObsDir),
     CMEC_MODEL_DATA |-> StrOf(pathModelDir),
     CMEC_WK_DIR |-> StrOf(PathJoin(pathWorkingDir, vecWorkingDirs[i])),
     command |-> StrOf(vecDriverScripts[i]),
     executable |-> TRUE]

\* The files after the scripts of drivers i.. have been written, each made
\* executable.  The stream of a script whose directory is not there does
\* not open, and nothing is written; this is not looked at.
RECURSIVE WriteScripts(_, _)
WriteScripts(i, files) ==
    IF i > Len(vecDriverScripts) THEN files
    ELSE IF ~OutExists(PathJoin(pathWorkingDir, vecWorkingDirs[i]))
    THEN WriteScripts(i + 1, files)
    ELSE WriteScripts(i + 1,
            [q \in DOMAIN files \cup {EnvScriptPath(i)} |->
                IF q = EnvScriptPath(i) THEN EnvScript(i) ELSE files[q]])

\* cmec_run: the loop that writes the environment scripts.
RunWriteScripts ==
    /\ pc = "scripts"
    /\ scripts' = WriteScripts(1, scripts)
    /\ vecEnvScripts' = [i \in 1..Len(vecDriverScripts) |-> EnvScriptPath(i)]
    /\ pc' = "exec"
    /\ d' = 0
    /\ UNCHANGED <<file, homeWritable, termios, other, libVars, last, cmd, exit, errors, strName, atLoad,
                   m, vecModulePaths, vecDriverScripts, vecWorkingDirs,
                   derefEnd, outDirs, executed, childStatus, lastKey>>

\* An execution loop that stops at the first script that returns non-zero
\* and makes the run fail.
RunExec_HaltOnFailure ==
    /\ pc = "exec"
    /\ executed' = Append(executed, vecEnvScripts[d + 1])
    /\ d' = d + 1
    /\ \E status \in {0, 1} :
          /\ childStatus' = status
          /\ IF status # 0 THEN Finish(1)
             ELSE IF d + 1 = Len(vecDriverScripts) THEN Finish(0)
             ELSE UNCHANGED <<pc, exit>>
    /\ UNCHANGED <<file, homeWritable, termios, other, libVars, last, cmd, errors, strName, atLoad,
                   m, vecModulePaths, vecDriverScripts, vecWorkingDirs, vecEnvScripts,
                   derefEnd, outDirs, scripts, lastKey>>

\* cmec_run: one turn of the loop that runs the scripts; the status of the
\* child is not looked at.  After the last one cmec_run returns 0.
RunExec ==
    /\ pc = "exec"
    /\ executed' = Append(executed, vecEnvScripts[d + 1])
    /\ childStatus' \in {0, 1}
    /\ d' = d + 1
    /\ IF d + 1 = Len(vecDriverScripts)
       THEN Finish(0)
       ELSE UNCHANGED <<pc, exit>>
    /\ UNCHANGED <<file, homeWritable, termios, other, libVars, last, cmd, errors, strName, atLoad,
                   m, vecModulePaths, vecDriverScripts, vecWorkingDirs, vecEnvScripts,
                   derefEnd, outDirs, scripts, lastKey>>

Next ==
    \/ StartRegister \/ StartUnregister \/ StartList \/ StartRun \/ Usage
    \/ RegisterRead \/ RegisterWrite
    \/ UnregisterRead \/ UnregisterWrite
    \/ List
    \/ RunRead \/ RunResolve \/ RunCheckDrivers
    \/ RunCreateDir \/ RunPrompt \/ RunWriteScripts \/ RunExec
    \/ Exit

Spec == Init /\ [][Next]_vars

(***************************************************************************)
(* The library file across the commands that change it                     *)
(***************************************************************************)

\* The name->path map a library document holds.
ModulesOf(f) == [n \in DOMAIN f.modules.f |-> PathOf(f.modules.f[n].s)]

\* The map the command loaded with the module of the command added
\* (register) or taken away (unregister).
MapAfter ==
    IF cmd.name = "register"
    THEN [n \in DOMAIN atLoad \cup {strName} |->
             IF n = strName THEN PathOf(cmd.strDirectory) ELSE atLoad[n]]
    ELSE [n \in DOMAIN atLoad \ {cmd.strModuleName} |-> atLoad[n]]

\* C4: after a register or unregister that succeeds the library file holds
\* exactly the modules the command loaded plus the registered one
\* (register) or minus the removed one (unregister), and the next load
\* gives exactly that map; a register or unregister that fails on Insert
\* or Remove leaves the file as it was loaded, so the next load gives the
\* map that was loaded.
C4_PersistedInFull ==
    (pc = "done" /\ cmd.name \in {"register", "unregister"}) =>
        /\ exit = 0 =>
              /\ IF cmd.name = "register" THEN strName \notin DOMAIN atLoad
                 ELSE cmd.strModuleName \in DOMAIN atLoad
              /\ ModulesOf(file) = MapAfter
              /\ ReadLib(file, homeWritable).ok
              /\ ReadLib(file, homeWritable).map = MapAfter
              /\ ReadLib(file, homeWritable).file = file
        /\ (errors \cap {"AlreadyExists", "NotFound"}) # {} =>
              /\ exit # 0
              /\ file = m_jlib
              /\ ModulesOf(file) = atLoad
              /\ ReadLib(file, homeWritable).ok
              /\ ReadLib(file, homeWritable).map = atLoad

\* C4: a register has succeeded on a library that held modules already.
C4_Witness ==
    /\ pc = "done"
    /\ cmd.name = "register"
    /\ exit = 0
    /\ atLoad # EmptyMap
    /\ strName \notin DOMAIN atLoad
    /\ strName \in DOMAIN file.modules.f

(***************************************************************************)
(* The resolution of one selector                                          *)
(***************************************************************************)

\* The selector the loop of cmec_run is at.
Selector == cmd.vecModules[m + 1]

\* The loop of cmec_run is about to resolve a selector that passes the
\* character checks.
AtSelector ==
    /\ pc = "resolve"
    /\ m < Len(cmd.vecModules)
    /\ CheckSelector(Selector) = "ok"

\* The library entry of the parent module of the selector.
ParentEntry == FindLib(m_mapModulePaths, SplitSelector(Selector).strParentModule)

\* The selector names a single-configuration module that is in the library
\* under the name its settings.json declares.
AtSingleConfiguration ==
    /\ AtSelector
    /\ ParentEntry.found
    /\ SettingsExistsInModulePath(ParentEntry.path)
    /\ ReadFromFile(PathJoin(ParentEntry.path, PathOf(g_szCMECSettingsName))).res = "true"
    /\ ReadFromFile(PathJoin(ParentEntry.path, PathOf(g_szCMECSettingsName))).name
           = SplitSelector(Selector).strParentModule

\* The turn of the loop ends cmec_run with the error err and no driver
\* added.
FailsWith(err) ==
    /\ pc' = "done"
    /\ exit' # 0
    /\ err \in errors'
    /\ vecWorkingDirs' = vecWorkingDirs
    /\ vecDriverScripts' = vecDriverScripts
    /\ vecModulePaths' = vecModulePaths

\* The turn of the loop adds the drivers with the labels given, in some
\* order, and goes on.
AddsLabels(labels) ==
    /\ pc' = "resolve"
    /\ m' = m + 1
    /\ Len(vecWorkingDirs') = Len(vecWorkingDirs) + Cardinality(labels)
    /\ SubSeq(vecWorkingDirs', 1, Len(vecWorkingDirs)) = vecWorkingDirs
    /\ {vecWorkingDirs'[i] : i \in (Len(vecWorkingDirs) + 1)..Len(vecWorkingDirs')} = labels
    /\ Len(vecDriverScripts') = Len(vecWorkingDirs')
    /\ Len(vecModulePaths') = Len(vecWorkingDirs')

\* C7: resolving "mod" against a single-configuration module registered
\* under its declared name adds exactly one driver, whose working directory
\* label is "mod"; resolving "mod/x" against it is an error that adds none.
C7_SingleConfiguration ==
    [][AtSingleConfiguration =>
          IF SplitSelector(Selector).strConfiguration = <<>>
          THEN AddsLabels({PathOf(Selector)})
          ELSE FailsWith("SingleConfiguration")]_vars

\* C7: "s" has been resolved after another selector and its driver added
\* after the one that was there.
C7_Witness ==
    /\ pc = "resolve"
    /\ m = 2
    /\ cmd.vecModules = << <<"t", "/", "a">>, <<"s">> >>
    /\ vecWorkingDirs = << PathOf(<<"t", "/", "a">>), PathOf(<<"s">>) >>

\* The selector names a multi-configuration module that is in the library
\* under the name its contents.json declares.
AtMultiConfiguration ==
    /\ AtSelector
    /\ ParentEntry.found
    /\ ~SettingsExistsInModulePath(ParentEntry.path)
    /\ TOCExistsInModulePath(ParentEntry.path)
    /\ ReadFromModulePath(ParentEntry.path).res = "true"
    /\ TOCName(ReadFromModulePath(ParentEntry.path)) = SplitSelector(Selector).strParentModule

\* The configurations of the module the selector names.
Configurations == DOMAIN ReadFromModulePath(ParentEntry.path).configs

\* C8: resolving "mod" against a multi-configuration module adds exactly
\* one driver per configuration, labelled "mod/<config>"; resolving "mod/a"
\* adds exactly one, labelled "mod/a", when the module has configuration a
\* and is the error "does not contain configuration" when it has not.
C8_MultiConfiguration ==
    [][AtMultiConfiguration =>
          IF SplitSelector(Selector).strConfiguration = <<>>
          THEN AddsLabels({PathOf(Selector \o <<"/">> \o c) : c \in Configurations})
          ELSE IF SplitSelector(Selector).strConfiguration \in Configurations
          THEN AddsLabels({PathOf(Selector)})
          ELSE FailsWith("NoConfiguration")]_vars

\* C8: "t" has been resolved after "t/a": one driver for t/a, then one for
\* each of the two configurations of t.
C8_Witness ==
    /\ pc = "resolve"
    /\ m = 2
    /\ cmd.vecModules = << <<"t", "/", "a">>, <<"t">> >>
    /\ vecWorkingDirs = << PathOf(<<"t", "/", "a">>), PathOf(<<"t", "/", "a">>),
                           PathOf(<<"t", "/", "b">>) >>

\* A run whose directories are there, whose library was loaded, and every
\* selector of which names a module that is not in the library.
NoSelectorMatches ==
    /\ cmd.name = "run"
    /\ pc \notin {"run", "usage"}
    /\ libState = "loaded"
    /\ cmd.dirs = GoodDirs
    /\ \A i \in 1..Len(cmd.vecModules) :
          /\ CheckSelector(cmd.vecModules[i]) = "ok"
          /\ SplitSelector(cmd.vecModules[i]).strParentModule \notin DOMAIN atLoad

\* C9: a run every selector of which names a module that is not in the
\* library fails with the error "No driver files found": it creates no
\* output directory, writes and invokes no script, and does not end
\* otherwise.
C9_NoDriversFound ==
    NoSelectorMatches =>
        /\ pc \in {"resolve", "done"}
        /\ vecDriverScripts = <<>>
        /\ scripts = EmptyMap
        /\ executed = <<>>
        /\ pc = "done" => (exit = ExitStatus(-1) /\ "NoDrivers" \in errors)

\* C10: a selector whose parent module is not in the library is reported,
\* adds no driver, its lookup result is not used, and the loop goes on
\* with the next selector.
C10_UnknownModuleSkipped ==
    [][(AtSelector /\ ~ParentEntry.found) =>
          /\ "NotFound" \in errors'
          /\ ~derefEnd'
          /\ AddsLabels({})]_vars

(***************************************************************************)
(* Errors of the selector loop and the end of the run                      *)
(***************************************************************************)

\* Selector str does not resolve against the library that was loaded: its
\* module is unknown, the module directory holds neither descriptor, a
\* configuration is asked of a single-configuration module, or the
\* multi-configuration module has no configuration of that name.
Unresolvable(str) ==
    IF SplitSelector(str).strParentModule \notin DOMAIN atLoad THEN TRUE
    ELSE IF SettingsExistsInModulePath(atLoad[SplitSelector(str).strParentModule])
    THEN SplitSelector(str).strConfiguration # <<>>
    ELSE IF TOCExistsInModulePath(atLoad[SplitSelector(str).strParentModule])
    THEN /\ SplitSelector(str).strConfiguration # <<>>
         /\ SplitSelector(str).strConfiguration \notin
               DOMAIN ReadFromModulePath(atLoad[SplitSelector(str).strParentModule]).configs
    ELSE TRUE

\* C11: when a selector of the list does not resolve, the run invokes no
\* driver script and ends with a non-zero exit status, whatever the other
\* selectors resolve to.
C11_ResolutionErrorsAbort ==
    ( /\ cmd.name = "run"
      /\ pc \notin {"run", "usage"}
      /\ libState = "loaded"
      /\ cmd.dirs = GoodDirs
      /\ \E i \in 1..Len(cmd.vecModules) :
            /\ CheckSelector(cmd.vecModules[i]) = "ok"
            /\ Unresolvable(cmd.vecModules[i]) )
    => /\ executed = <<>>
       /\ pc = "done" => exit # 0

\* The characters a selector may be made of: letters, digits, '_' and '/'.
SelectorChars ==
    { "a", "b", "c", "d", "e", "f", "g", "h", "i", "j", "k", "l", "m",
      "n", "o", "p", "q", "r", "s", "t", "u", "v", "w", "x", "y", "z",
      "A", "B", "C", "D", "E", "F", "G", "H", "I", "J", "K", "L", "M",
      "N", "O", "P", "Q", "R", "S", "T", "U", "V", "W", "X", "Y", "Z",
      "0", "1", "2", "3", "4", "5", "6", "7", "8", "9", "_", "/" }

\* str is not empty, does not end in '/', and is made of selector
\* characters.
ValidSelector(str) ==
    /\ str # <<>>
    /\ str[Len(str)] # "/"
    /\ \A i \in 1..Len(str) : str[i] \in SelectorChars

\* The errors by which a selector is rejected for its syntax.
SyntaxErrors == {"ZeroLength", "DanglingSlash", "NonAlphanumeric"}

\* C12: a run never gets past a selector that is empty, ends in '/' or
\* holds a character other than a letter, a digit, '_' or '/': the selector
\* is rejected before it is looked up, the run fails, and no directory or
\* script is created and no script invoked; a run all of whose selectors
\* pass the three checks reports no syntax error.
C12_SelectorsValidated ==
    ( /\ cmd.name = "run"
      /\ pc \notin {"run", "usage"}
      /\ libState = "loaded"
      /\ cmd.dirs = GoodDirs )
    => /\ \A i \in 1..Len(cmd.vecModules) :
             ~ValidSelector(cmd.vecModules[i]) =>
                /\ m < i
                /\ pc \in {"resolve", "done"}
                /\ outDirs \in ExistingOutDirs
                /\ scripts = EmptyMap
                /\ executed = <<>>
                /\ pc = "done" =>
                      /\ exit # 0
                      /\ m = i - 1 => errors \cap SyntaxErrors # {}
                      /\ ( /\ m = i - 1
                           /\ \A j \in 1..(i - 1) :
                                 SplitSelector(cmd.vecModules[j]).strParentModule
                                    \in DOMAIN atLoad )
                         => ("NotFound" \notin errors /\ ~derefEnd)
       /\ (\A i \in 1..Len(cmd.vecModules) : ValidSelector(cmd.vecModules[i])) =>
             errors \cap SyntaxErrors = {}

\* C12: "s" was resolved and "s/" then rejected; the run has failed with
\* the driver of s in the plan and nothing created.
C12_Witness ==
    /\ pc = "done"
    /\ cmd.name = "run"
    /\ cmd.vecModules = << <<"s">>, <<"s", "/">> >>
    /\ "DanglingSlash" \in errors
    /\ exit # 0
    /\ m = 1
    /\ Len(vecWorkingDirs) = 1
    /\ ~derefEnd
    /\ executed = <<>>

(***************************************************************************)
(* The parsing functions applied to bounded inputs                         *)
(***************************************************************************)

\* The longest module argument the checks and the split are applied to.
MaxSelLen == 3

\* The characters those arguments are made of.
SelectorAlphabet == {"s", "t", "/", "_", "-"}

InitParse ==
    /\ file = NoFile
    /\ homeWritable = TRUE
    /\ m_mapModulePaths = EmptyMap
    /\ m_jlib = JNull
    /\ libState = "fresh"
    /\ last = NoCall
    /\ InitCmd

\* The head of one turn of the selector loop of cmec_run on vecModules[m] =
\* str: the checks, then the split.
SelectorCall ==
    /\ \E str \in SeqsUpTo(SelectorAlphabet, MaxSelLen) :
          last' = [op |-> "Selector", str |-> str,
                   check |-> CheckSelector(str),
                   strParentModule |-> SplitSelector(str).strParentModule,
                   strConfiguration |-> SplitSelector(str).strConfiguration]
    /\ UNCHANGED <<file, homeWritable, termios, other, libVars, cmdVars, runVars>>

\* The longest contents array ReadFromModulePath is applied to.
MaxContents == 2

\* The entries those arrays are made of: settings files that parse (a, b,
\* and d, which declares the name a too), one with a key missing (c), one that
\* is no JSON (g), one that is not there (h), and an entry that is no string.
ContentsEntries ==
    { JStr(<<"a">>), JStr(<<"b">>), JStr(<<"c">>), JStr(<<"d">>),
      JStr(<<"g">>), JStr(<<"h">>), JNumber }

\* CMECModuleTOC::ReadFromModulePath on a contents.json of module /t whose
\* contents array is entries.
TOCCall ==
    /\ \E entries \in SeqsUpTo(ContentsEntries, MaxContents) :
       \E toc \in {ParseTOC(PathOf(<<"/", "t">>),
                            TOCDoc(ModuleObj(JStr(<<"t">>), JStr(<<"t">>)), JArr(entries)))} :
          last' = [op |-> "ReadFromModulePath", contents |-> entries,
                   res |-> toc.res, configs |-> toc.configs]
    /\ UNCHANGED <<file, homeWritable, termios, other, libVars, cmdVars, runVars>>

\* The longest settings name ReadFromFile is applied to.
MaxNameLen == 2

\* The characters those names are made of.
NameAlphabet == {"a", "1", "_", "/", "-", " "}

\* CMECModuleSettings::ReadFromFile on a settings file that is well formed
\* and declares the name name.
SettingsCall ==
    /\ \E name \in SeqsUpTo(NameAlphabet, MaxNameLen) :
       \E r \in {ParseSettings(GoodSettings(name, <<"r">>))} :
          last' = [op |-> "ReadFromFile", declared |-> name,
                   res |-> r.res, name |-> r.name]
    /\ UNCHANGED <<file, homeWritable, termios, other, libVars, cmdVars, runVars>>

\* cmec_register: which descriptor of the module directory is read.
ClassifyRegister(pathModule) ==
    IF SettingsExistsInModulePath(pathModule) THEN "single"
    ELSE IF TOCExistsInModulePath(pathModule) THEN "multi"
    ELSE "none"

\* cmec_list: how a module of the library is printed, with its number of
\* configurations or as a name alone.
ClassifyList(pathModule) ==
    IF TOCExistsInModulePath(pathModule) THEN "multi" ELSE "single"

\* cmec_run: which branch of the selector loop a module takes.
ClassifyRun(pathModule) ==
    IF SettingsExistsInModulePath(pathModule) THEN "single"
    ELSE IF TOCExistsInModulePath(pathModule) THEN "multi"
    ELSE "none"

\* Module directories: with settings.json alone (/s), contents.json alone
\* (/t, /u, /n), both (/b) and neither (/e).
ModuleDirs ==
    { <<"/", "s">>, <<"/", "t">>, <<"/", "u">>, <<"/", "n">>, <<"/", "b">>, <<"/", "e">> }

\* The three commands looking at one module directory.
ClassifyCall ==
    /\ \E strDirectory \in ModuleDirs :
          last' = [op |-> "Classify", strDirectory |-> strDirectory,
                   register |-> ClassifyRegister(PathOf(strDirectory)),
                   list |-> ClassifyList(PathOf(strDirectory)),
                   run |-> ClassifyRun(PathOf(strDirectory))]
    /\ UNCHANGED <<file, homeWritable, termios, other, libVars, cmdVars, runVars>>

\* The characters the check of ReadFromModulePath lets through in
\* module::name: a letter, an underscore and the slash.
ModuleNameAlphabet == {"s", "_", "/"}

\* The first part of cmec_register on a module directory whose
\* contents.json declares the module name name and no configuration: the
\* names under which the module may be inserted.
RegisterNameCall ==
    /\ \E name \in SeqsUpTo(ModuleNameAlphabet, MaxNameLen) :
       \E toc \in {ParseTOC(PathOf(<<"/", "t">>),
                            TOCDoc(ModuleObj(JStr(name), JStr(name)), JArr(<<>>)))} :
          last' = [op |-> "RegisterName", declared |-> name, res |-> toc.res,
                   outcomes |-> NamesOfTOC(toc)]
    /\ UNCHANGED <<file, homeWritable, termios, other, libVars, cmdVars, runVars>>

NextParse ==
    \/ SelectorCall
    \/ TOCCall
    \/ SettingsCall
    \/ ClassifyCall
    \/ RegisterNameCall

SpecParse == InitParse /\ [][NextParse]_vars

\* C13: a selector that passes the checks is split on its first '/':
\* strParentModule is the text before it and strConfiguration all the text
\* after it; a selector with no '/' gives the whole selector and the empty
\* configuration.
C13_SplitOnFirstSlash ==
    (last.op = "Selector" /\ last.check = "ok") =>
        IF \A i \in 1..Len(last.str) : last.str[i] # "/"
        THEN /\ last.strParentModule = last.str
             /\ last.strConfiguration = <<>>
        ELSE \E i \in 1..Len(last.str) :
                /\ last.str[i] = "/"
                /\ \A j \in 1..(i - 1) : last.str[j] # "/"
                /\ last.strParentModule = SubSeq(last.str, 1, i - 1)
                /\ last.strConfiguration = SubSeq(last.str, i + 1, Len(last.str))

(***************************************************************************)
(* The plan and its execution                                              *)
(***************************************************************************)

\* Every selector of the run names a module of the library that was loaded.
AllModulesKnown ==
    /\ cmd.name = "run"
    /\ pc \notin {"run", "usage"}
    /\ libState = "loaded"
    /\ cmd.dirs = GoodDirs
    /\ \A i \in 1..Len(cmd.vecModules) :
          /\ ValidSelector(cmd.vecModules[i])
          /\ SplitSelector(cmd.vecModules[i]).strParentModule \in DOMAIN atLoad

\* The drivers selector str stands for.
DriversOf(str) ==
    ResolveModule(SplitSelector(str).strParentModule,
                  SplitSelector(str).strConfiguration,
                  atLoad[SplitSelector(str).strParentModule]).drivers

\* The drivers of the first k selectors, in the order of the selectors.
RECURSIVE PlanUpTo(_)
PlanUpTo(k) ==
    IF k = 0 THEN <<>> ELSE PlanUpTo(k - 1) \o DriversOf(cmd.vecModules[k])

\* The script of the i-th entry of the plan.
ScriptOf(i) ==
    PathJoin(PathJoin(pathWorkingDir, vecWorkingDirs[i]),
             PathOf(<<"c", "m", "e", "c", "_", "r", "u", "n", ".", "b", "a", "s", "h">>))

\* C14: the plan holds the drivers of the selectors resolved so far in the
\* order of the selectors, a selector given k times contributing its
\* drivers k times; the scripts invoked so far are those of the first
\* entries of the plan, in plan order, one more with each step of the
\* execution loop; a run that returns 0 has invoked the script of every
\* entry.
C14_PlanOrderKept ==
    AllModulesKnown =>
        /\ Len(vecWorkingDirs) = Len(PlanUpTo(m))
        /\ \A i \in 1..Len(vecWorkingDirs) :
              /\ vecWorkingDirs[i] = PlanUpTo(m)[i].workingDir
              /\ vecDriverScripts[i] = PlanUpTo(m)[i].driverScript
              /\ vecModulePaths[i] = PlanUpTo(m)[i].modulePath
        /\ Len(executed) <= Len(vecWorkingDirs)
        /\ \A i \in 1..Len(executed) : executed[i] = ScriptOf(i)
        /\ pc = "exec" => Len(executed) = d
        /\ pc \in {"resolve", "dirs", "prompt", "scripts"} => executed = <<>>
        /\ (pc = "done" /\ exit = 0) =>
              (m = Len(cmd.vecModules) /\ Len(executed) = Len(vecWorkingDirs))

\* C14: "t" was given twice; the run has returned 0 with the two drivers of
\* t twice in the plan, and has invoked the scripts of t/a and t/b and then
\* those of t/a and t/b again.
C14_Witness ==
    /\ pc = "done"
    /\ exit = 0
    /\ cmd.name = "run"
    /\ cmd.vecModules = << <<"t">>, <<"t">> >>
    /\ Len(vecWorkingDirs) = 4
    /\ executed = << ScriptOf(1), ScriptOf(2), ScriptOf(1), ScriptOf(2) >>
    /\ ScriptOf(1) # ScriptOf(2)

(***************************************************************************)
(* The overwrite prompt                                                    *)
(***************************************************************************)

\* The output directory the prompt asks about.
PromptedDir == PathJoin(pathWorkingDir, vecWorkingDirs[d + 1])

\* The step deletes the directory asked about with all below it and creates
\* it again, and the run goes on; or the deletion or the creation fails
\* and the run ends with that error.
OverwriteConfirmed ==
    \/ /\ outDirs' = {p \in outDirs : ~IsBelow(p, PromptedDir)}
                        \cup CreateDirectories(PromptedDir)
       /\ PromptedDir \in outDirs'
       /\ pc' \in {"dirs", "scripts"}
       /\ exit' = exit
       /\ errors' = errors
    \/ /\ pc' = "done"
       /\ exit' # 0
       /\ errors' \cap {"Remove", "CreateDirectory"} # {}
       /\ "Overwrite" \notin errors'

\* The step ends the whole run: a non-zero result, no directory touched, no
\* later entry taken up, no script written or invoked.
OverwriteRefused ==
    /\ pc' = "done"
    /\ exit' # 0
    /\ "Overwrite" \in errors'
    /\ d' = d
    /\ outDirs' = outDirs
    /\ scripts' = EmptyMap
    /\ executed' = <<>>

\* The step leaves the run at the prompt, waiting for another key.
StillPrompting ==
    /\ pc' = "prompt"
    /\ UNCHANGED <<exit, errors, d, outDirs, scripts, executed>>

\* A step of the prompt loop in which GetSingleCharacter has returned a
\* character.
KeyRead == pc = "prompt" /\ "Terminal" \notin errors'

\* C15 as stated: at the overwrite prompt the key y confirms and every
\* other key, Enter included, is a refusal that ends the whole run.
C15_AnyOtherKeyRefuses ==
    [][KeyRead =>
          IF lastKey' = "y" THEN OverwriteConfirmed ELSE OverwriteRefused]_vars

\* C15: at the overwrite prompt y and Y confirm, and the directory is
\* deleted with all below it and created again; n, N, newline and carriage
\* return refuse, which ends the whole run with a non-zero result, no later
\* entry processed and no script invoked; any other character is ignored
\* and the prompt reads again.
C15_KeyDecides ==
    [][KeyRead =>
          IF lastKey' \in {"y", "Y"} THEN OverwriteConfirmed
          ELSE IF lastKey' \in {"n", "N", "nl", "cr"} THEN OverwriteRefused
          ELSE StillPrompting]_vars

\* C15: the run of t/a and s was asked about the directory of t/a, Enter
\* was pressed, and the run has ended without taking up the entry of s.
C15_Witness ==
    /\ pc = "done"
    /\ cmd.name = "run"
    /\ cmd.vecModules = << <<"t", "/", "a">>, <<"s">> >>
    /\ lastKey = "nl"
    /\ "Overwrite" \in errors
    /\ exit # 0
    /\ d = 0
    /\ Len(vecWorkingDirs) = 2
    /\ PathJoin(pathWorkingDir, PathOf(<<"s">>)) \notin outDirs
    /\ executed = <<>>

\* C16: in the execution loop every step invokes the script of the next
\* entry of the plan, whatever the script before it returned; the run ends
\* only after the script of the last entry, and then returns 0.
C16_FailingDriverDoesNotHalt ==
    [][pc = "exec" =>
          /\ Len(executed) < Len(vecWorkingDirs)
          /\ executed' = Append(executed, ScriptOf(Len(executed) + 1))
          /\ IF Len(executed') = Len(vecWorkingDirs)
             THEN pc' = "done" /\ exit' = 0
             ELSE pc' = "exec" /\ exit' = exit]_vars

\* C16: the script of the first of two entries has returned non-zero and
\* the run is still in the execution loop, the second entry next.
C16_Witness ==
    /\ pc = "exec"
    /\ childStatus = 1
    /\ executed = << ScriptOf(1) >>
    /\ Len(vecWorkingDirs) = 2
    /\ d = 1

\* The output directory of the i-th entry of the plan.
OutDirOf(i) == PathJoin(pathWorkingDir, vecWorkingDirs[i])

C18_ExitZeroOrOne ==
    pc = "done" => IF errors = {} THEN exit = 0 ELSE exit = 1

(***************************************************************************)
(* Validation in register                                                  *)
(***************************************************************************)

\* The descriptor file of the module directory: settings.json if it is
\* there, else contents.json.
DescriptorRead(pathModule) ==
    IF SettingsExistsInModulePath(pathModule)
    THEN ReadFromFile(PathJoin(pathModule, PathOf(g_szCMECSettingsName))).res
    ELSE IF TOCExistsInModulePath(pathModule)
    THEN ReadFromModulePath(pathModule).res
    ELSE "none"

\* C19: a register of a directory whose descriptor is rejected as malformed
\* fails and inserts nothing, and a register succeeds only on a directory
\* whose descriptor validated.
C19_RegisterValidates ==
    (pc = "done" /\ cmd.name = "register") =>
        /\ DescriptorRead(PathOf(cmd.strDirectory)) = "false" =>
              /\ exit # 0
              /\ m_mapModulePaths = atLoad
        /\ exit = 0 => DescriptorRead(PathOf(cmd.strDirectory)) = "true"

(***************************************************************************)
(* Loading a contents file                                                 *)
(***************************************************************************)

\* What reading the settings file that contents entry e of module /t names
\* comes to; an entry that is no string names no file.
EntryRead(e) ==
    IF e.t = "string" THEN ReadFromFile(EntryPath(PathOf(<<"/", "t">>), e))
    ELSE NotRead("throw")

\* The entries of a contents array whose settings file parses.
ParsedEntries(entries) ==
    { i \in 1..Len(entries) : EntryRead(entries[i]).res = "true" }

\* C20: loading a contents file whose array names settings files, some that
\* parse and some that do not (keys missing, no JSON, or not there),
\* succeeds, and the configs table holds exactly the entries that parsed,
\* each under the name its settings file declares.
C20_FailingEntriesSkipped ==
    (/\ last.op = "ReadFromModulePath"
     /\ \A i \in 1..Len(last.contents) : last.contents[i].t = "string") =>
        /\ last.res = "true"
        /\ DOMAIN last.configs =
              { EntryRead(last.contents[i]).name : i \in ParsedEntries(last.contents) }
        /\ \A i \in ParsedEntries(last.contents) :
              last.configs[EntryRead(last.contents[i]).name] =
                 EntryPath(PathOf(<<"/", "t">>), last.contents[i])

(***************************************************************************)
(* The paths of the library                                                *)
(***************************************************************************)

\* C21: the path a successful register has stored in the library file is
\* absolute, whatever the form of the directory argument, and so are the
\* module path and the driver script of every entry of a plan.
C21_StoredPathsAbsolute ==
    /\ (pc = "done" /\ cmd.name = "register" /\ exit = 0) =>
          PathOf(file.modules.f[strName].s).absolute
    /\ \A i \in 1..Len(vecModulePaths) :
          vecModulePaths[i].absolute /\ vecDriverScripts[i].absolute

(***************************************************************************)
(* The name a settings file declares                                       *)
(***************************************************************************)

\* An alphanumeric character or an underscore.
IsIdentifierChar(c) ==
    \/ (Code(c) >= 48 /\ Code(c) <= 57)
    \/ (Code(c) >= 65 /\ Code(c) <= 90)
    \/ (Code(c) >= 97 /\ Code(c) <= 122)
    \/ c = "_"

\* C22: a settings file that is well formed otherwise is accepted exactly
\* if the name it declares is made of alphanumeric characters and
\* underscores only.
C22_SettingsNameValidated ==
    last.op = "ReadFromFile" =>
        (last.res = "true" <=>
            \A i \in 1..Len(last.declared) : IsIdentifierChar(last.declared[i]))

(***************************************************************************)
(* Two configurations of one name                                          *)
(***************************************************************************)

\* The entries of a contents array that parse and declare the name that
\* entry i declares.
SameName(entries, i) ==
    { j \in ParsedEntries(entries) : EntryRead(entries[j]).name = EntryRead(entries[i]).name }

\* No settings file of the array makes ReadFromFile give up with an exception.
NoneThrows(entries) ==
    \A i \in 1..Len(entries) : EntryRead(entries[i]).res # "throw"

\* Two entries of the array parse and declare one name.
Collision(entries) ==
    \E i, j \in ParsedEntries(entries) :
        /\ i < j
        /\ entries[i] # entries[j]
        /\ j \in SameName(entries, i)

\* C23 as stated: when two entries declare one name the load succeeds and
\* the table holds, for each name, the settings path of the last entry that
\* declares it.
C23_LaterEntryOverwrites ==
    (/\ last.op = "ReadFromModulePath"
     /\ NoneThrows(last.contents)
     /\ Collision(last.contents)) =>
        /\ last.res = "true"
        /\ \A i \in ParsedEntries(last.contents) :
              \A j \in SameName(last.contents, i) :
                 (\A k \in SameName(last.contents, i) : k <= j) =>
                    last.configs[EntryRead(last.contents[i]).name] =
                       EntryPath(PathOf(<<"/", "t">>), last.contents[j])

\* C23: when two entries declare one name the load succeeds and the table
\* holds, for each name, the settings path of the first entry that declares
\* it; the later entries of that name are dropped.
C23_FirstEntryKept ==
    (/\ last.op = "ReadFromModulePath"
     /\ NoneThrows(last.contents)) =>
        /\ last.res = "true"
        /\ DOMAIN last.configs =
              { EntryRead(last.contents[i]).name : i \in ParsedEntries(last.contents) }
        /\ \A i \in ParsedEntries(last.contents) :
              \A j \in SameName(last.contents, i) :
                 (\A k \in SameName(last.contents, i) : j <= k) =>
                    last.configs[EntryRead(last.contents[i]).name] =
                       EntryPath(PathOf(<<"/", "t">>), last.contents[j])

\* C23: a contents array whose entries d and a declare the name a, d first,
\* has been loaded.
C23_Witness ==
    /\ last.op = "ReadFromModulePath"
    /\ last.contents = <<JStr(<<"d">>), JStr(<<"a">>)>>
    /\ last.res = "true"
    /\ DOMAIN last.configs = {<<"a">>}
    /\ last.configs[<<"a">>] = PathOf(<<"/", "t", "/", "d">>)

(***************************************************************************)
(* The order of the modules                                                *)
(***************************************************************************)

\* CMECLibrary::begin .. CMECLibrary::end: the names of the library in the
\* order the iterator of m_mapModulePaths gives them.
IterateLib(map) == SortedKeys(DOMAIN map)

\* C24: the library is iterated in insertion order: an Insert that succeeds
\* puts the new module after all the others, and a Remove that succeeds
\* takes the module out and leaves the others in the order they had.
C24_InsertionOrder ==
    /\ (last.op = "Insert" /\ last.ret) =>
          IterateLib(m_mapModulePaths) = Append(IterateLib(last.map), last.name)
    /\ (last.op = "Remove" /\ last.ret) =>
          IterateLib(m_mapModulePaths) =
             SelectSeq(IterateLib(last.map), LAMBDA n : n # last.name)

(***************************************************************************)
(* Two register commands at the same time                                  *)
(***************************************************************************)

\* main of the second process: register <module directory>
OtherStart ==
    /\ other.pc = "idle"
    /\ \E strDirectory \in RegisterDirs :
          other' = [other EXCEPT !.pc = "register", !.strDirectory = strDirectory]
    /\ UNCHANGED <<file, homeWritable, termios, libVars, last, cmdVars, runVars>>

\* cmec_register of the second process up to lib.Read().
OtherRead ==
    /\ other.pc = "register"
    /\ \E o \in RegisterName(PathOf(other.strDirectory)), r \in {ReadLib(file, homeWritable)} :
         IF o.res = "ok"
         THEN /\ file' = r.file
              /\ other' = [other EXCEPT !.strName = o.name, !.map = r.map, !.jlib = r.jlib,
                                        !.pc = IF r.ok THEN "register_insert" ELSE "done",
                                        !.exit = IF r.ok THEN 0 ELSE 1]
         ELSE /\ other' = [other EXCEPT !.pc = "done",
                                        !.exit = IF o.res = "return" THEN ExitStatus(-1)
                                                 ELSE IF o.res = "crash" THEN Crashed ELSE 1]
              /\ UNCHANGED file
    /\ UNCHANGED <<homeWritable, termios, libVars, last, cmdVars, runVars>>

\* cmec_register of the second process from lib.Insert() on.
OtherWrite ==
    /\ other.pc = "register_insert"
    /\ \E ins \in {InsertLib(other.map, other.jlib, other.strName, PathOf(other.strDirectory))} :
       \E w \in {WriteLib(file, ins.jlib, homeWritable)} :
       IF ~ins.ret
       THEN /\ other' = [other EXCEPT !.pc = "done", !.exit = ExitStatus(-1)]
            /\ UNCHANGED file
       ELSE /\ file' = w.file
            /\ other' = [other EXCEPT !.map = ins.map, !.jlib = ins.jlib, !.pc = "done",
                                      !.exit = IF w.ok THEN 0 ELSE 1]
    /\ UNCHANGED <<homeWritable, termios, libVars, last, cmdVars, runVars>>

\* Two processes, each running one register command, step by step in any
\* order.
NextRace ==
    \/ StartRegister \/ RegisterRead \/ RegisterWrite
    \/ OtherStart \/ OtherRead \/ OtherWrite

SpecRace == Init /\ [][NextRace]_vars

\* C25: nothing coordinates the two commands: a register that succeeds
\* leaves in the library file exactly the modules it loaded at its own Read
\* plus its own module, whatever the other command has written since.
C25_WriteUncoordinated ==
    [][/\ (pc = "register_insert" /\ pc' = "done" /\ exit' = 0) =>
             /\ file' = m_jlib'
             /\ DOMAIN file'.modules.f = DOMAIN atLoad \cup {strName}
       /\ (other.pc = "register_insert" /\ other'.pc = "done" /\ other'.exit = 0) =>
             /\ file' = other'.jlib
             /\ DOMAIN file'.modules.f = DOMAIN other.map \cup {other.strName}]_vars

\* C25: the lost update: both commands have reported success for modules
\* of different names and the library file holds one of the two only.
C25_Witness ==
    /\ pc = "done" /\ cmd.name = "register" /\ exit = 0
    /\ other.pc = "done" /\ other.exit = 0
    /\ strName # other.strName
    /\ file.t = "doc"
    /\ Cardinality({strName, other.strName} \cap DOMAIN file.modules.f) = 1

(***************************************************************************)
(* Runs of a module whose output directories lie inside one another        *)
(***************************************************************************)

\* The library file after "register /n": module n has the configurations
\* a and a/b, so its output directories are n/a and n/a/b.
NestedFile ==
    JDoc(JStr(g_szVersion), JEmptyObj, JObj(<<"n">> :> JStr(<<"/", "n">>)))

\* Module arguments of run that select configurations of n.
NestedSelectors == { <<"n">>, <<"n", "/", "a">>, <<"n", "/", "a", "/", "b">> }

InitNested ==
    /\ file = NestedFile
    /\ homeWritable = TRUE
    /\ m_mapModulePaths = EmptyMap
    /\ m_jlib = JNull
    /\ libState = "fresh"
    /\ last = NoCall
    /\ InitCmd

\* main: run <obs dir> <model dir> <working dir> <modules>, with an empty
\* working directory.
StartRunNested ==
    \E v \in SeqsUpTo(NestedSelectors, MaxSel) :
        /\ Len(v) >= 1
        /\ Start([name |-> "run", dirs |-> GoodDirs, vecModules |-> v], {})
        /\ pc' = "run"

NextNested ==
    \/ StartRunNested
    \/ RunRead \/ RunResolve \/ RunCheckDrivers
    \/ RunCreateDir \/ RunPrompt \/ RunWriteScripts \/ RunExec
    \/ Exit

SpecNested == InitNested /\ [][NextNested]_vars

\* C26: a run that has returned a failure has invoked no script, and while
\* scripts are invoked the output directory and the script of every entry
\* of the plan exist.
C26_PhasesInOrder ==
    /\ (cmd.name = "run" /\ pc = "done" /\ exit # 0) => executed = <<>>
    /\ (cmd.name = "run" /\ executed # <<>>) =>
          \A i \in 1..Len(vecDriverScripts) :
             /\ OutDirOf(i) \in outDirs
             /\ EnvScriptPath(i) \in DOMAIN scripts

(***************************************************************************)
(* What the overwrite prompt is raised for                                 *)
(***************************************************************************)

\* C27: the overwrite prompt is raised only for an output directory that was
\* there before the run started, never for one the run has made itself for
\* an earlier entry of the plan (in a run whose modules were all found).
C27_PromptOnlyForOldDirs ==
    (cmd.name = "run" /\ pc = "prompt" /\ ~derefEnd) =>
        OutDirOf(d + 1) \in UNION ExistingOutDirs

(***************************************************************************)
(* One module directory seen by register, list and run                     *)
(***************************************************************************)

\* C28: register, list and run take a module directory for the same kind
\* of module, whichever descriptor files it holds.
C28_SameClassification ==
    last.op = "Classify" =>
        /\ last.register = last.run
        /\ last.list = last.run

(***************************************************************************)
(* Registered names and selectors                                          *)
(***************************************************************************)

\* Some module argument of run passes the checks and has name for its
\* parent module.
Selectable(name) ==
    \E str \in SeqsUpTo(SelectorAlphabet, MaxSelLen) :
        /\ CheckSelector(str) = "ok"
        /\ SplitSelector(str).strParentModule = name

\* C29: every name under which register inserts a module is the parent
\* module of some selector that passes the checks of run.
C29_RegisteredIsSelectable ==
    last.op = "RegisterName" =>
        \A o \in last.outcomes : o.res = "ok" => Selectable(o.name)

(***************************************************************************)
(* The loop of the overwrite prompt                                        *)
(***************************************************************************)

\* The characters the loop of the prompt ends on.
DecidingKeys == {"y", "Y", "n", "N", "nl", "cr"}

\* C30: every read of the prompt loop that returns leaves the terminal in
\* the mode it was in; the loop is left only on one of the keys y, Y, n, N,
\* newline and carriage return; any other value read, the end of input
\* included, changes nothing and the loop reads again.
C30_PromptLoop ==
    [][KeyRead =>
          /\ termios' = termios
          /\ pc' # "prompt" => lastKey' \in DecidingKeys
          /\ lastKey' \notin DecidingKeys =>
                /\ pc' = "prompt"
                /\ UNCHANGED <<exit, errors, d, outDirs, scripts, executed, vecWorkingDirs>>]_vars

\* C30: the end of input has been read at the prompt of the run of t/a, and
\* the run is at the prompt still, the terminal in canonical mode.
C30_Witness ==
    /\ pc = "prompt"
    /\ cmd.name = "run"
    /\ cmd.vecModules = << <<"t", "/", "a">> >>
    /\ lastKey = "eof"
    /\ termios = "canonical"
    /\ errors = {}

====
